----------------------------- MODULE LogProofs -----------------------------
(***************************************************************************)
(* Proofs about the log for any number of processes, blocks and values and *)
(* any log size: its inductive invariant, and that it never panics when a  *)
(* call logs few enough blocks.                                            *)
(***************************************************************************)
EXTENDS LogSteps, FiniteSetTheorems

USE DEF disk, mem, procs

\* The calls in progress are finitely many.
LEMMA ActiveFinite ==
    IsFiniteSet(Active) /\ Cardinality(Active) \in Nat /\ (Cardinality(Active) = 0 <=> Active = {})
<1>1. IsFiniteSet(Active)
  BY LogAssumption, FS_Subset DEF Active
<1> QED
  BY <1>1, FS_CardinalityType, FS_EmptySet

\* The call that takes outstanding to zero in end_op() is the only one.
LEMMA LastCall ==
    ASSUME CountInv, outstanding = 1, NEW p \in Active
    PROVE  Active = {p}
<1>1. PICK x : Active = {x}
  BY ActiveFinite, FS_Singleton DEF CountInv
<1> QED
  BY <1>1

\* outstanding tells whether a call is in progress, and whether it is alone.
LEMMA OutstandingCounts == CountInv => Outstanding
  BY ActiveFinite, LastCall DEF CountInv, Outstanding

\* Every step keeps outstanding equal to the number of calls in progress.
LEMMA CountStep == LogInv /\ [Next]_vars => CountInv'
<1> SUFFICES ASSUME LogInv, [Next]_vars PROVE CountInv'
  OBVIOUS
<1> USE LogAssumption DEF LogInv, CountInv
<1>1. CASE ReadHead
  <2>1. Active' = Active /\ outstanding' = outstanding
    BY <1>1 DEF ReadHead, Active, TypeOK
  <2> QED
    BY <2>1
<1>2. CASE RecoverBlock
  <2>1. Active' = Active /\ outstanding' = outstanding
    BY <1>2 DEF RecoverBlock, Active, TypeOK
  <2> QED
    BY <2>1
<1>3. CASE RecoverClear
  <2>1. Active' = Active /\ outstanding' = outstanding
    BY <1>3 DEF RecoverClear, Active, TypeOK
  <2> QED
    BY <2>1
<1>4. CASE WriteLog
  <2>1. Active' = Active /\ outstanding' = outstanding
    BY <1>4 DEF WriteLog, Active, TypeOK
  <2> QED
    BY <2>1
<1>5. CASE WriteHead
  <2>1. Active' = Active /\ outstanding' = outstanding
    BY <1>5 DEF WriteHead, Active, TypeOK
  <2> QED
    BY <2>1
<1>6. CASE InstallTrans
  <2>1. Active' = Active /\ outstanding' = outstanding
    BY <1>6 DEF InstallTrans, Active, TypeOK
  <2> QED
    BY <2>1
<1>7. CASE ClearHead
  <2>1. Active' = Active /\ outstanding' = outstanding
    BY <1>7 DEF ClearHead, Active, TypeOK
  <2> QED
    BY <2>1
<1>8. ASSUME NEW p \in Proc, EndCommit(p) PROVE CountInv'
  <2>1. Active' = Active /\ outstanding' = outstanding
    BY <1>8 DEF EndCommit, Woken, Active, TypeOK
  <2> QED
    BY <2>1
<1>9. ASSUME NEW p \in Proc, BeginSleep(p) PROVE CountInv'
  <2>1. Active' = Active /\ outstanding' = outstanding
    BY <1>9 DEF BeginSleep, Active, TypeOK
  <2> QED
    BY <2>1
<1>10. ASSUME NEW p \in Proc, BeginOp(p) PROVE CountInv'
  <2>1. Active' = Active \cup {p} /\ p \notin Active /\ outstanding' = outstanding + 1
    BY <1>10 DEF BeginOp, Active, TypeOK
  <2> QED
    BY <2>1, ActiveFinite, FS_AddElement
<1>11. ASSUME NEW p \in Proc, LogWrite(p) PROVE CountInv'
  <2>1. Active' = Active /\ outstanding' = outstanding
    BY <1>11 DEF LogWrite, Active, TypeOK
  <2> QED
    BY <2>1
<1>12. ASSUME NEW p \in Proc, LogPanic(p) PROVE CountInv'
  <2>1. Active' = Active /\ outstanding' = outstanding
    BY <1>12 DEF LogPanic, Active, TypeOK
  <2> QED
    BY <2>1
<1>13. ASSUME NEW p \in Proc, EndOp(p) PROVE CountInv'
  <2>1. Active' = Active \ {p} /\ p \in Active /\ outstanding' = outstanding - 1
    BY <1>13 DEF EndOp, Woken, Active, TypeOK
  <2> QED
    BY <2>1, ActiveFinite, FS_RemoveElement
<1>14. ASSUME NEW p \in Proc, EndOpCommit(p) PROVE CountInv'
  <2>1. p \in Active /\ outstanding = 1
    BY <1>14 DEF EndOpCommit, Active
  <2>2. Active = {p}
    BY <2>1, LastCall DEF CountInv
  <2>3. Active' = {} /\ outstanding' = 0
    BY <1>14, <2>2 DEF EndOpCommit, Active, TypeOK
  <2> QED
    BY <2>3, FS_EmptySet
<1>15. ASSUME NEW p \in Proc, NEW b \in Block, NEW v \in Val, Modify(p, b, v)
       PROVE  CountInv'
  <2>1. Active' = Active /\ outstanding' = outstanding
    BY <1>15 DEF Modify, Active, TypeOK
  <2> QED
    BY <2>1
<1>16. ASSUME NEW b \in Block, Fill(b) PROVE CountInv'
  <2>1. Active' = Active /\ outstanding' = outstanding
    BY <1>16 DEF Fill, Active, TypeOK
  <2> QED
    BY <2>1
<1>17. ASSUME NEW b \in Block, Recycle(b) PROVE CountInv'
  <2>1. Active' = Active /\ outstanding' = outstanding
    BY <1>17 DEF Recycle, Active, TypeOK
  <2> QED
    BY <2>1
<1>18. CASE Crash
  <2>1. Active' = {} /\ outstanding' = 0
    BY <1>18 DEF Crash, Active
  <2> QED
    BY <2>1, FS_EmptySet
<1>19. CASE UNCHANGED vars
  <2>1. Active' = Active /\ outstanding' = outstanding
    BY <1>19 DEF vars, Active, TypeOK
  <2> QED
    BY <2>1
<1> QED
  BY <1>1, <1>2, <1>3, <1>4, <1>5, <1>6, <1>7, <1>8, <1>9, <1>10, <1>11, <1>12,
     <1>13, <1>14, <1>15, <1>16, <1>17, <1>18, <1>19 DEF Next, Recover, Commit

\* The reserved slots are finitely many, and MAXOPBLOCKS for each call at most.
LEMMA ReservedFinite ==
    /\ IsFiniteSet(Reserved) /\ Cardinality(Reserved) \in Nat
    /\ Cardinality(Reserved) <= Cardinality(Active) * MAXOPBLOCKS
    /\ Active = {} => Cardinality(Reserved) = 0
<1> DEFINE S == 1 .. MAXOPBLOCKS
<1>1. IsFiniteSet(S) /\ Cardinality(S) = MAXOPBLOCKS
  BY LogAssumption, FS_Interval
<1> HIDE DEF S
<1>2. IsFiniteSet(Active \X S) /\ Cardinality(Active \X S) = Cardinality(Active) * MAXOPBLOCKS
  BY <1>1, ActiveFinite, FS_Product
<1>3. Reserved \subseteq Active \X S
  BY DEF Reserved, S
<1>4. IsFiniteSet(Reserved) /\ Cardinality(Reserved) <= Cardinality(Active \X S)
  BY <1>2, <1>3, FS_Subset
<1>5. Cardinality(Reserved) \in Nat
  BY <1>4, FS_CardinalityType
<1>6. Active = {} => Reserved = {}
  BY DEF Reserved
<1> QED
  BY <1>2, <1>4, <1>5, <1>6, FS_EmptySet

\* With the log unchanged, a step that gives slots back keeps the bound.
LEMMA SlotsReturned ==
    ASSUME TypeOK, SpaceReserved, lh' = lh, Reserved' \subseteq Reserved
    PROVE  SpaceReserved'
<1>1. Cardinality(Reserved') <= Cardinality(Reserved) /\ Cardinality(Reserved') \in Nat
  BY ReservedFinite, FS_Subset, FS_CardinalityType
<1> QED
  BY <1>1, ReservedFinite, LogAssumption DEF SpaceReserved, TypeOK

\* Every step keeps room for the slots begin_op() has reserved.
LEMMA SpaceStep == LogInv /\ [Next]_vars => SpaceReserved'
<1> SUFFICES ASSUME LogInv, [Next]_vars PROVE SpaceReserved'
  OBVIOUS
<1> USE LogAssumption
<1>a. TypeOK /\ StageInv /\ CountInv /\ SpaceReserved
  BY DEF LogInv
<1>1. CASE ReadHead
  <2>1. Active' = {} /\ Len(lh') \in Nat /\ Len(lh') <= LOGSIZE
    BY <1>1, <1>a, EmptyFacts DEF ReadHead, Recovering, StageInv, Active, TypeOK
  <2>2. Reserved' = {}
    BY <2>1 DEF Reserved
  <2> QED
    BY <2>1, <2>2, FS_EmptySet DEF SpaceReserved
<1>2. CASE RecoverBlock
  <2>1. lh' = lh /\ Reserved' \subseteq Reserved
    BY <1>2, <1>a DEF RecoverBlock, Reserved, Active, TypeOK
  <2> QED
    BY <1>a, <2>1, SlotsReturned
<1>3. CASE RecoverClear
  <2>1. Active' = {} /\ Len(lh') \in Nat /\ Len(lh') <= LOGSIZE
    BY <1>3, <1>a, EmptyFacts DEF RecoverClear, Recovering, StageInv, Active, TypeOK
  <2>2. Reserved' = {}
    BY <2>1 DEF Reserved
  <2> QED
    BY <2>1, <2>2, FS_EmptySet DEF SpaceReserved
<1>4. CASE WriteLog
  <2>1. lh' = lh /\ Reserved' \subseteq Reserved
    BY <1>4, <1>a DEF WriteLog, Reserved, Active, TypeOK
  <2> QED
    BY <1>a, <2>1, SlotsReturned
<1>5. CASE WriteHead
  <2>1. lh' = lh /\ Reserved' \subseteq Reserved
    BY <1>5, <1>a DEF WriteHead, Reserved, Active, TypeOK
  <2> QED
    BY <1>a, <2>1, SlotsReturned
<1>6. CASE InstallTrans
  <2>1. lh' = lh /\ Reserved' \subseteq Reserved
    BY <1>6, <1>a DEF InstallTrans, Reserved, Active, TypeOK
  <2> QED
    BY <1>a, <2>1, SlotsReturned
<1>7. CASE ClearHead
  <2>1. Active' = {} /\ Len(lh') \in Nat /\ Len(lh') <= LOGSIZE
    BY <1>7, <1>a, EmptyFacts DEF ClearHead, Recovering, StageInv, Active, TypeOK
  <2>2. Reserved' = {}
    BY <2>1 DEF Reserved
  <2> QED
    BY <2>1, <2>2, FS_EmptySet DEF SpaceReserved
<1>8. ASSUME NEW p \in Proc, EndCommit(p) PROVE SpaceReserved'
  <2>1. lh' = lh /\ Reserved' \subseteq Reserved
    BY <1>8, <1>a DEF EndCommit, Woken, Reserved, Active, TypeOK
  <2> QED
    BY <1>a, <2>1, SlotsReturned
<1>9. ASSUME NEW p \in Proc, BeginSleep(p) PROVE SpaceReserved'
  <2>1. lh' = lh /\ Reserved' \subseteq Reserved
    BY <1>9, <1>a DEF BeginSleep, Reserved, Active, TypeOK
  <2> QED
    BY <1>a, <2>1, SlotsReturned
<1>10. ASSUME NEW p \in Proc, BeginOp(p) PROVE SpaceReserved'
  <2>1. lh' = lh /\ Len(lh) + (outstanding + 1) * MAXOPBLOCKS <= LOGSIZE
    BY <1>10, <1>a DEF BeginOp, NoRoom, TypeOK
  <2>2. Cardinality(Active') = outstanding + 1
    <3>1. Active' = Active \cup {p} /\ p \notin Active
      BY <1>10, <1>a DEF BeginOp, Active, TypeOK
    <3> QED
      BY <1>a, <3>1, ActiveFinite, FS_AddElement DEF CountInv
  <2>3. Reserved' \subseteq Active' \X (1 .. MAXOPBLOCKS)
    BY DEF Reserved
  <2>4. Cardinality(Reserved') <= (outstanding + 1) * MAXOPBLOCKS /\ Cardinality(Reserved') \in Nat
    <3>1. IsFiniteSet(1 .. MAXOPBLOCKS) /\ Cardinality(1 .. MAXOPBLOCKS) = MAXOPBLOCKS
      BY FS_Interval
    <3>2. IsFiniteSet(Active')
      BY FS_Subset DEF Active
    <3>3. /\ IsFiniteSet(Active' \X (1 .. MAXOPBLOCKS))
          /\ Cardinality(Active' \X (1 .. MAXOPBLOCKS)) = (outstanding + 1) * MAXOPBLOCKS
      <4>1. /\ IsFiniteSet(Active' \X (1 .. MAXOPBLOCKS))
            /\ Cardinality(Active' \X (1 .. MAXOPBLOCKS))
                  = Cardinality(Active') * Cardinality(1 .. MAXOPBLOCKS)
        BY <3>1, <3>2, FS_Product, Zenon
      <4> QED
        BY <2>2, <3>1, <4>1, Zenon
    <3> QED
      BY <2>3, <3>3, FS_Subset, FS_CardinalityType
  <2>5. (outstanding + 1) * MAXOPBLOCKS \in Nat /\ Len(lh) \in Nat
    BY <1>a DEF TypeOK
  <2> QED
    BY <2>1, <2>4, <2>5 DEF SpaceReserved
<1>11. ASSUME NEW p \in Proc, LogWrite(p) PROVE SpaceReserved'
  <2>1. CASE held[p] \in Logged(lh)
    <3>1. lh' = lh /\ Reserved' \subseteq Reserved
      BY <1>11, <1>a, <2>1 DEF LogWrite, Reserved, Active, TypeOK
    <3> QED
      BY <1>a, <3>1, SlotsReturned
  <2>2. CASE held[p] \notin Logged(lh)
    <3>1. /\ held[p] \in Block /\ used[p] \in Nat /\ used[p] < OpBlocks
          /\ pc[p] = "held"
      BY <1>11, <1>a, <2>2 DEF LogWrite, StageInv, TypeOK
    <3>2. /\ lh' = Append(lh, held[p]) /\ used' = [used EXCEPT ![p] = @ + 1]
          /\ pc' = [pc EXCEPT ![p] = "op"]
      BY <1>11, <1>a, <2>2 DEF LogWrite
    <3>3. Len(lh') = Len(lh) + 1 /\ Len(lh) \in Nat
      BY <1>a, <3>1, <3>2, AppendFacts DEF TypeOK
    <3>4. Active' = Active /\ p \in Active
      BY <1>a, <3>1, <3>2 DEF Active, TypeOK
    <3>5. <<p, used[p] + 1>> \in Reserved
      BY <3>1, <3>4 DEF Reserved
    <3>6. /\ used'[p] = used[p] + 1
          /\ \A q \in Proc : q # p => used'[q] = used[q]
      BY <1>a, <3>2 DEF TypeOK
    <3>7. ASSUME NEW r \in Proc \X (1 .. MAXOPBLOCKS)
          PROVE  r \in Reserved' <=> r \in Reserved \ {<<p, used[p] + 1>>}
      <4>1. CASE r[1] = p
        <5>1. r[2] > used[p] + 1 <=> r[2] > used[p] /\ r[2] # used[p] + 1
          BY <3>1
        <5>2. r # <<p, used[p] + 1>> <=> r[2] # used[p] + 1
          BY <4>1
        <5> QED
          BY <3>4, <3>6, <4>1, <5>1, <5>2 DEF Reserved
      <4>2. CASE r[1] # p
        BY <3>4, <3>6, <4>2 DEF Reserved
      <4> QED
        BY <4>1, <4>2
    <3>8. Reserved' = Reserved \ {<<p, used[p] + 1>>}
      <4>1. Reserved \subseteq Proc \X (1 .. MAXOPBLOCKS)
        BY DEF Reserved
      <4>2. Reserved' \subseteq Proc \X (1 .. MAXOPBLOCKS)
        BY DEF Reserved
      <4> QED
        BY <3>7, <4>1, <4>2, Zenon
    <3>9. Cardinality(Reserved') = Cardinality(Reserved) - 1
      BY <3>5, <3>8, ReservedFinite, FS_RemoveElement
    <3> QED
      BY <1>a, <3>3, <3>9, ReservedFinite DEF SpaceReserved
  <2> QED
    BY <2>1, <2>2
<1>12. ASSUME NEW p \in Proc, LogPanic(p) PROVE SpaceReserved'
  <2>1. lh' = lh /\ Reserved' \subseteq Reserved
    BY <1>12, <1>a DEF LogPanic, Reserved, Active, TypeOK
  <2> QED
    BY <1>a, <2>1, SlotsReturned
<1>13. ASSUME NEW p \in Proc, EndOp(p) PROVE SpaceReserved'
  <2>1. lh' = lh /\ Reserved' \subseteq Reserved
    BY <1>13, <1>a DEF EndOp, Woken, Reserved, Active, TypeOK
  <2> QED
    BY <1>a, <2>1, SlotsReturned
<1>14. ASSUME NEW p \in Proc, EndOpCommit(p) PROVE SpaceReserved'
  <2>1. lh' = lh /\ Reserved' \subseteq Reserved
    BY <1>14, <1>a DEF EndOpCommit, Reserved, Active, TypeOK
  <2> QED
    BY <1>a, <2>1, SlotsReturned
<1>15. ASSUME NEW p \in Proc, NEW b \in Block, NEW v \in Val, Modify(p, b, v)
       PROVE  SpaceReserved'
  <2>1. lh' = lh /\ Reserved' \subseteq Reserved
    BY <1>15, <1>a DEF Modify, Reserved, Active, TypeOK
  <2> QED
    BY <1>a, <2>1, SlotsReturned
<1>16. ASSUME NEW b \in Block, Fill(b) PROVE SpaceReserved'
  <2>1. lh' = lh /\ Reserved' \subseteq Reserved
    BY <1>16, <1>a DEF Fill, Reserved, Active, TypeOK
  <2> QED
    BY <1>a, <2>1, SlotsReturned
<1>17. ASSUME NEW b \in Block, Recycle(b) PROVE SpaceReserved'
  <2>1. lh' = lh /\ Reserved' \subseteq Reserved
    BY <1>17, <1>a DEF Recycle, Reserved, Active, TypeOK
  <2> QED
    BY <1>a, <2>1, SlotsReturned
<1>18. CASE Crash
  <2>1. Active' = {} /\ Len(lh') \in Nat /\ Len(lh') <= LOGSIZE
    BY <1>18, <1>a, EmptyFacts DEF Crash, Recovering, StageInv, Active, TypeOK
  <2>2. Reserved' = {}
    BY <2>1 DEF Reserved
  <2> QED
    BY <2>1, <2>2, FS_EmptySet DEF SpaceReserved
<1>19. CASE UNCHANGED vars
  <2>1. lh' = lh /\ Reserved' \subseteq Reserved
    BY <1>19, <1>a DEF vars, Reserved, Active, TypeOK
  <2> QED
    BY <1>a, <2>1, SlotsReturned
<1> QED
  BY <1>1, <1>2, <1>3, <1>4, <1>5, <1>6, <1>7, <1>8, <1>9, <1>10, <1>11, <1>12,
     <1>13, <1>14, <1>15, <1>16, <1>17, <1>18, <1>19 DEF Next, Recover, Commit

\* The log is consistent when the machine starts.
LEMMA LogInvInit == Init => LogInv
<1> SUFFICES ASSUME Init PROVE LogInv
  OBVIOUS
<1>1. TypeOK
  BY TypeInit
<1>2. Active = {} /\ Reserved = {}
  BY DEF Init, Active, Reserved
<1>3. StageInv
  BY <1>2, EmptyFacts DEF Init, StageInv, Recovering, Committing
<1>4. PinInv /\ CacheInv
  BY DEF Init, PinInv, CacheInv
<1>5. DiskInv
  BY DEF Init, DiskInv
<1>6. CountInv /\ SpaceReserved
  BY <1>2, FS_EmptySet, EmptyFacts, LogAssumption DEF Init, CountInv, SpaceReserved
<1> QED
  BY <1>1, <1>3, <1>4, <1>5, <1>6 DEF LogInv

\* In every state of every behaviour, with any number of calls, crashes and
\* interrupted recoveries, the in-memory log, the pins, the cache, the log and
\* the home blocks fit together (all of log.c).
THEOREM LogConsistent == Safety => []LogInv
<1>1. LogInv /\ [Next]_vars => LogInv'
  BY OutstandingCounts, TypeStep, StageStep, PinStep, CacheStep, DiskStep, CountStep, SpaceStep
     DEF LogInv
<1> QED
  BY LogInvInit, <1>1, PTL DEF Safety

\* begin_op()'s test of lh.n and outstanding keeps room for every admitted call.
THEOREM LogSpaceReserved == Safety => []SpaceReserved
<1>1. LogInv => SpaceReserved
  BY DEF LogInv
<1> QED
  BY <1>1, LogConsistent, PTL

\* Once the last end_op() has committed, no buffer stays pinned.
THEOREM LogNoPinLeak == Safety => []NoPinLeak
<1>1. LogInv => NoPinLeak
  BY EmptyFacts DEF LogInv, NoPinLeak, PinInv, DiskInv
<1> QED
  BY <1>1, LogConsistent, PTL

\* Once the last end_op() has committed, a crash loses nothing.
THEOREM LogDurableAtRest == Safety => []DurableAtRest
<1>1. LogInv => DurableAtRest
  <2> SUFFICES ASSUME LogInv, stage = "run", outstanding = 0 PROVE Recovered = Current
    BY DEF DurableAtRest
  <2>1. dhead = <<>> /\ lh = <<>> /\ Logged(dhead) = {}
    BY EmptyFacts DEF LogInv, DiskInv
  <2>2. Active = {}
    BY ActiveFinite DEF LogInv, CountInv
  <2>3. \A p \in Proc : held[p] = NoBlock
    BY <2>2 DEF LogInv, StageInv, Active
  <2>4. \A b \in Block : pin[b] = 0
    BY <2>1 DEF LogInv, PinInv
  <2>5. \A b \in Block : Read(b) = home[b]
    BY <2>3, <2>4, LogAssumption DEF LogInv, CacheInv, Read
  <2> QED
    BY <2>1, <2>5 DEF Recovered, Current, Recovering
<1> QED
  BY <1>1, LogConsistent, PTL

\* Every step keeps a waker: a process goes to sleep only while a call or a
\* commit is in progress, since an empty log has room for one call, and what
\* ends the last one wakes all sleepers.
LEMMA SleeperStep ==
    ASSUME LogInv, SleeperHasWaker, [Next]_vars PROVE SleeperHasWaker'
<1> DEFINE Waker == outstanding > 0 \/ committing
<1>0. outstanding \in Nat /\ committing \in BOOLEAN
  BY DEF LogInv, TypeOK
<1>1. ASSUME NEW p \in Proc, BeginSleep(p) PROVE Waker'
  <2>1. ASSUME outstanding = 0, ~committing PROVE FALSE
    <3>1. stage = "run"
      BY <1>1, <2>1 DEF BeginSleep, Up, LogInv, TypeOK, StageInv
    <3>2. Len(lh) = 0
      BY <2>1, <3>1, EmptyFacts DEF LogInv, DiskInv
    <3>3. (outstanding + 1) * MAXOPBLOCKS = MAXOPBLOCKS
      BY <2>1, LogAssumption
    <3> QED
      BY <1>1, <2>1, <3>2, <3>3, LogAssumption DEF BeginSleep, NoRoom
  <2> QED
    BY <1>0, <1>1, <2>1 DEF BeginSleep
<1>2. ASSUME NEW p \in Proc, BeginOp(p) \/ EndOp(p) \/ EndOpCommit(p) PROVE Waker'
  BY <1>0, <1>2 DEF BeginOp, EndOp, EndOpCommit
<1>3. ASSUME NEW p \in Proc, EndCommit(p) PROVE \A q \in Proc : pc'[q] # "sleep"
  BY <1>3 DEF EndCommit, Woken
<1>4. ASSUME NEW p \in Proc, LogPanic(p) PROVE ~Up'
  BY <1>4 DEF LogPanic, Up
<1>5. CASE Crash
  BY <1>5 DEF Crash, SleeperHasWaker
<1>6. CASE Recover
  BY <1>6 DEF Recover, ReadHead, RecoverBlock, RecoverClear, LogInv, StageInv, SleeperHasWaker,
              Recovering
<1>7. ASSUME NEW p \in Proc, LogWrite(p) \/ \E b \in Block, v \in Val : Modify(p, b, v)
      PROVE  SleeperHasWaker'
  <2>1. \A q \in Proc : pc'[q] = "sleep" => pc[q] = "sleep"
    BY <1>7 DEF LogWrite, Modify, LogInv, TypeOK
  <2> QED
    BY <1>7, <2>1 DEF LogWrite, Modify, SleeperHasWaker, Up
<1>8. ASSUME \/ WriteLog \/ WriteHead \/ InstallTrans \/ ClearHead
             \/ \E b \in Block : Fill(b) \/ Recycle(b)
             \/ UNCHANGED vars
      PROVE  SleeperHasWaker'
  BY <1>8 DEF WriteLog, WriteHead, InstallTrans, ClearHead, Fill, Recycle, vars, SleeperHasWaker,
              Up, Recovering
<1> QED
  BY <1>1, <1>2, <1>3, <1>4, <1>5, <1>6, <1>7, <1>8 DEF Next, Commit, SleeperHasWaker

\* No sleeper in begin_op() is forgotten, with any number of processes and any
\* log size: as long as one sleeps, an end_op() is still to come that wakes it
\* (log.c:125-140, 150-173).
THEOREM LogSleepersWoken == Safety => []SleeperHasWaker
<1>1. Init => SleeperHasWaker
  BY DEF Init, SleeperHasWaker
<1> QED
  BY <1>1, SleeperStep, LogConsistent, PTL DEF Safety

\* When LogRoom holds of the constants, log_write() and end_op() never panic.
THEOREM LogNeverPanics == ASSUME LogRoom PROVE Safety => []NoLogPanic
<1>1. Init => NoLogPanic
  BY DEF Init, NoLogPanic
<1>2. LogInv /\ NoLogPanic /\ [Next]_vars => NoLogPanic'
  <2> SUFFICES ASSUME LogInv, NoLogPanic, [Next]_vars PROVE NoLogPanic'
    OBVIOUS
  <2>1. ASSUME NEW p \in Proc PROVE ~LogPanic(p)
    <3> SUFFICES ASSUME LogPanic(p) PROVE FALSE
      OBVIOUS
    <3>1. pc[p] \in {"op", "held"} /\ p \in Active
      BY DEF LogPanic, MustPanic, Active
    <3>2. ~committing
      BY <3>1 DEF LogInv, StageInv, Committing
    <3>3. outstanding \in Nat /\ outstanding # 0
      BY <3>1, ActiveFinite DEF LogInv, CountInv
    <3>4. Cardinality(Reserved) >= MAXOPBLOCKS - OpBlocks
      <4> DEFINE free == {p} \X (OpBlocks + 1 .. MAXOPBLOCKS)
      <4>1. OpBlocks \in Nat /\ OpBlocks < MAXOPBLOCKS /\ used[p] \in 0 .. OpBlocks
        BY LogAssumption DEF LogRoom, LogInv, TypeOK
      <4>2. free \subseteq Reserved
        <5> SUFFICES ASSUME NEW k \in OpBlocks + 1 .. MAXOPBLOCKS PROVE <<p, k>> \in Reserved
          OBVIOUS
        <5>1. k \in 1 .. MAXOPBLOCKS /\ k > used[p]
          BY <4>1, LogAssumption
        <5> QED
          BY <3>1, <5>1 DEF Reserved
      <4>3. /\ IsFiniteSet(OpBlocks + 1 .. MAXOPBLOCKS)
            /\ Cardinality(OpBlocks + 1 .. MAXOPBLOCKS) = MAXOPBLOCKS - OpBlocks
        <5> DEFINE a == OpBlocks + 1
        <5>1. a \in Int /\ MAXOPBLOCKS \in Int /\ ~(a > MAXOPBLOCKS)
          BY <4>1, LogAssumption
        <5>2. MAXOPBLOCKS - a + 1 = MAXOPBLOCKS - OpBlocks
          BY <4>1, LogAssumption
        <5> HIDE DEF a
        <5>3. /\ IsFiniteSet(a .. MAXOPBLOCKS)
              /\ Cardinality(a .. MAXOPBLOCKS) = MAXOPBLOCKS - a + 1
          BY <5>1, FS_Interval, Zenon
        <5> QED
          BY <5>2, <5>3, Zenon DEF a
      <4>4. Cardinality(free) = Cardinality({p}) * Cardinality(OpBlocks + 1 .. MAXOPBLOCKS)
        <5>1. IsFiniteSet({p})
          BY FS_Singleton
        <5> QED
          BY <4>3, <5>1, FS_Product
      <4>5. Cardinality(free) = MAXOPBLOCKS - OpBlocks
        <5>1. Cardinality({p}) = 1
          BY FS_Singleton
        <5>2. Cardinality(free) = 1 * (MAXOPBLOCKS - OpBlocks)
          BY <4>3, <4>4, <5>1, Zenon
        <5> QED
          BY <4>1, <5>2, LogAssumption
      <4>6. Cardinality(free) <= Cardinality(Reserved)
        BY <4>2, ReservedFinite, FS_Subset
      <4> HIDE DEF free
      <4> QED
        BY <4>1, <4>5, <4>6, ReservedFinite, LogAssumption
    <3>5. Len(lh) <= LOGSIZE - (MAXOPBLOCKS - OpBlocks) /\ Len(lh) \in Nat
      BY <3>4, ReservedFinite, LogAssumption DEF LogInv, SpaceReserved, TypeOK
    <3>6. ~LogFull
      BY <3>5, LogAssumption DEF LogFull, LogRoom
    <3> QED
      BY <3>2, <3>3, <3>6 DEF LogPanic, MustPanic
  <2> QED
    BY <2>1 DEF Next, Recover, Commit, NoLogPanic, vars, ReadHead, RecoverBlock,
       RecoverClear, WriteLog, WriteHead, InstallTrans, ClearHead, EndCommit,
       BeginSleep, BeginOp, LogWrite, EndOp, EndOpCommit, Modify, Fill, Recycle, Crash
<1> QED
  BY <1>1, <1>2, LogConsistent, PTL DEF Safety

-----------------------------------------------------------------------------
(* The log implements AtomicDisk: what recovery would read back changes only when
   commit() writes the header, and then to the whole state the file-system calls
   have built. *)


\* The position of a block in a log without repetitions.
LEMMA IndexFacts ==
    ASSUME NEW s \in Seq(Block), NoDup(s)
    PROVE  /\ \A i \in 1 .. Len(s) : IndexOf(s, s[i]) = i
           /\ \A b \in Logged(s) : IndexOf(s, b) \in 1 .. Len(s) /\ s[IndexOf(s, b)] = b
<1>1. ASSUME NEW b \in Logged(s)
      PROVE  IndexOf(s, b) \in 1 .. Len(s) /\ s[IndexOf(s, b)] = b
  <2>1. \E i \in 1 .. Len(s) : s[i] = b
    BY DEF Logged
  <2> QED
    BY <2>1 DEF IndexOf
<1>2. ASSUME NEW i \in 1 .. Len(s) PROVE IndexOf(s, s[i]) = i
  <2>1. s[i] \in Logged(s)
    BY DEF Logged
  <2> QED
    BY <1>1, <2>1 DEF NoDup
<1> QED
  BY <1>1, <1>2

\* A block nobody pins or holds reads as its home.
LEMMA ReadHome ==
    ASSUME LogInv, NEW b \in Block, pin[b] = 0, \A p \in Proc : held[p] # b
    PROVE  Read(b) = home[b]
  BY DEF LogInv, CacheInv, Read

\* While no call is in progress no buffer is held.
LEMMA NothingHeld ==
    ASSUME LogInv, stage # "run"
    PROVE  \A p \in Proc, b \in Block : held[p] # b
  BY LogAssumption DEF LogInv, StageInv, Active

\* Once every logged block is installed, recovery would change nothing.
LEMMA InstalledIsRecovered ==
    ASSUME LogInv, stage \in {"recover", "install"}, tail > Len(lh)
    PROVE  Recovered = [b \in Block |-> home[b]]
<1>1. dhead = lh /\ \A i \in 1 .. Len(lh) : home[lh[i]] = dlog[i]
  <2>1. \A i \in 1 .. Len(lh) : i \in 1 .. tail - 1
    BY DEF LogInv, TypeOK
  <2> QED
    BY <2>1 DEF LogInv, DiskInv
<1>2. \A b \in Logged(lh) : IndexOf(lh, b) \in 1 .. Len(lh) /\ lh[IndexOf(lh, b)] = b
  BY IndexFacts DEF LogInv, StageInv, TypeOK
<1>3. \A b \in Logged(lh) : dlog[IndexOf(lh, b)] = home[b]
  BY <1>1, <1>2
<1> QED
  BY <1>1, <1>3 DEF Recovered

\* With an empty header recovery changes nothing.
LEMMA EmptyIsRecovered ==
    /\ dhead = <<>> => Recovered = [b \in Block |-> home[b]]
    /\ dhead' = <<>> => Recovered' = [b \in Block |-> home'[b]]
  BY EmptyFacts DEF Recovered

\* The two sides of install_trans() leave what recovery would restore alone.
LEMMA InstallKeepsRecovered ==
    ASSUME LogInv, stage \in {"recover", "install"}, InstallBlock, dlog' = dlog, dhead' = dhead
    PROVE  Recovered' = Recovered
<1>1. lh[tail] \in Logged(dhead) /\ home' = [home EXCEPT ![lh[tail]] = dlog[tail]]
  BY InstallFacts DEF LogInv, DiskInv, Logged
<1>2. \A b \in Block : b \notin Logged(dhead) => home'[b] = home[b]
  BY <1>1 DEF LogInv, TypeOK
<1> QED
  BY <1>2 DEF Recovered

\* The header write makes what the calls saw the disk recovery restores.
LEMMA WriteHeadCommits ==
    ASSUME LogInv, WriteHead
    PROVE  Recovered' = Current /\ Current' = Current
<1>1. /\ stage = "write_log" /\ stage' = "install" /\ tail > Len(lh)
      /\ dhead' = lh /\ home' = home /\ dlog' = dlog /\ cache' = cache
  BY DEF WriteHead
<1>2. Current = [b \in Block |-> Read(b)] /\ Current' = Current
  BY <1>1 DEF Current, Recovering, Read
<1>3. \A i \in 1 .. Len(lh) : dlog[i] = cache[lh[i]]
  <2>1. \A i \in 1 .. Len(lh) : i \in 1 .. tail - 1
    BY <1>1 DEF LogInv, TypeOK
  <2> QED
    BY <1>1, <2>1 DEF LogInv, DiskInv
<1>4. ASSUME NEW b \in Block, b \in Logged(lh)
      PROVE  dlog[IndexOf(lh, b)] = Read(b)
  <2>1. IndexOf(lh, b) \in 1 .. Len(lh) /\ lh[IndexOf(lh, b)] = b
    BY <1>4, IndexFacts DEF LogInv, StageInv, TypeOK
  <2>2. cache[b] # NoBlock
    BY <1>1, <2>1, LoggedIsCached
  <2> QED
    BY <1>3, <2>1, <2>2 DEF Read
<1>5. ASSUME NEW b \in Block, b \notin Logged(lh)
      PROVE  home[b] = Read(b)
  <2>1. pin[b] = 0
    BY <1>1, <1>5 DEF LogInv, PinInv
  <2> QED
    BY <1>1, <2>1, ReadHome, NothingHeld
<1> QED
  BY <1>1, <1>2, <1>4, <1>5 DEF Recovered

\* Every step of the log is a step of AtomicDisk or leaves its state alone.
LEMMA StepRefines ==
    ASSUME LogInv, LogInv', [Next]_vars
    PROVE  [Abstract!Next]_(Abstract!vars)
<1> DEFINE Same == Recovered' = Recovered /\ Current' = Current /\ Active' = Active
<1>0. Same => [Abstract!Next]_(Abstract!vars)
  BY DEF Abstract!vars
<1> HIDE DEF Same
<1>a. ASSUME UNCHANGED <<home, dlog, dhead>> PROVE Recovered' = Recovered
  BY <1>a DEF Recovered
<1>b. ASSUME UNCHANGED <<home, dlog, dhead, cache>>,
             stage' \in Recovering <=> stage \in Recovering
      PROVE  Recovered' = Recovered /\ Current' = Current
  BY <1>a, <1>b DEF Current, Read
<1>1. CASE ReadHead
  <2>1. Recovered' = Recovered /\ Current' = Current /\ Active' = Active
    BY <1>1, <1>b DEF ReadHead, Recovering, Active
  <2> QED
    BY <1>0, <2>1 DEF Same
<1>2. CASE RecoverBlock
  <2>1. Recovered' = Recovered
    BY <1>2, InstallKeepsRecovered DEF RecoverBlock
  <2>2. Current' = Current /\ Active' = Active
    BY <1>2, <2>1 DEF RecoverBlock, Recovering, Current, Active
  <2> QED
    BY <1>0, <2>1, <2>2 DEF Same
<1>3. CASE RecoverClear
  <2>1. /\ stage = "recover" /\ tail > Len(lh) /\ dhead' = <<>> /\ stage' = "run"
        /\ home' = home /\ cache' = cache /\ pc' = pc
    BY <1>3 DEF RecoverClear
  <2>2. Recovered = [b \in Block |-> home[b]] /\ Recovered' = Recovered
    BY <2>1, InstalledIsRecovered, EmptyIsRecovered
  <2>3. ASSUME NEW b \in Block PROVE Read(b) = home[b]
    <3>1. pin[b] = 0
      BY <2>1 DEF LogInv, PinInv
    <3> QED
      BY <2>1, <3>1, ReadHome, NothingHeld
  <2>4. Current' = Recovered /\ Current = Recovered
    BY <2>1, <2>2, <2>3 DEF Current, Recovering, Read
  <2> QED
    BY <1>0, <2>1, <2>2, <2>4 DEF Same, Active
<1>4. CASE WriteLog
  <2>1. dhead = <<>> /\ dhead' = <<>> /\ home' = home /\ cache' = cache
        /\ stage' = stage /\ stage = "write_log" /\ pc' = pc
    BY <1>4 DEF WriteLog, LogInv, DiskInv
  <2>2. Recovered' = Recovered
    BY <2>1, EmptyIsRecovered
  <2>3. Current' = Current /\ Active' = Active
    BY <2>1 DEF Current, Read, Active, Recovering
  <2> QED
    BY <1>0, <2>2, <2>3 DEF Same
<1>5. CASE WriteHead
  <2>1. Active = {} /\ Active' = Active
    BY <1>5 DEF WriteHead, LogInv, StageInv, Active
  <2>2. Abstract!Commit
    BY <1>5, <2>1, WriteHeadCommits DEF Abstract!Commit
  <2> QED
    BY <2>2 DEF Abstract!Next
<1>6. CASE InstallTrans
  <2>1. /\ stage = "install" /\ stage' = stage /\ pc' = pc /\ dlog' = dlog /\ dhead' = dhead
        /\ InstallBlock
    BY <1>6 DEF InstallTrans
  <2>2. Recovered' = Recovered
    BY <2>1, InstallKeepsRecovered
  <2>3. /\ tail \in 1 .. Len(lh) /\ lh[tail] \in Block /\ dlog[tail] \in Val
        /\ home' = [home EXCEPT ![lh[tail]] = dlog[tail]]
        /\ cache' = [cache EXCEPT ![lh[tail]] = dlog[tail]]
    BY <2>1, InstallFacts DEF LogInv
  <2>4. cache[lh[tail]] = dlog[tail]
    <3>1. tail \in tail .. Len(lh)
      BY <2>3
    <3> QED
      BY <2>1, <3>1 DEF LogInv, DiskInv
  <2>5. cache' = cache
    BY <2>3, <2>4 DEF LogInv, TypeOK
  <2>6. ASSUME NEW b \in Block
        PROVE  (IF cache'[b] = NoBlock THEN home'[b] ELSE cache'[b]) = Read(b)
    BY <2>3, <2>4, <2>5, LogAssumption DEF Read, LogInv, TypeOK
  <2>7. Current' = Current
    BY <2>1, <2>6 DEF Current, Recovering, Read
  <2> QED
    BY <1>0, <2>1, <2>2, <2>7 DEF Same, Active
<1>7. CASE ClearHead
  <2>1. /\ stage = "install" /\ stage' = "finish" /\ tail > Len(lh) /\ dhead' = <<>>
        /\ home' = home /\ cache' = cache /\ pc' = pc
    BY <1>7 DEF ClearHead
  <2>2. Recovered' = Recovered
    BY <2>1, InstalledIsRecovered, EmptyIsRecovered
  <2>3. Current' = Current
    BY <2>1 DEF Current, Recovering, Read
  <2> QED
    BY <1>0, <2>1, <2>2, <2>3 DEF Same, Active
<1>8. ASSUME NEW p \in Proc, EndCommit(p) PROVE Same
  BY <1>8, <1>b DEF Same, EndCommit, Woken, Active, Recovering, LogInv, TypeOK
<1>9. ASSUME NEW p \in Proc, BeginSleep(p) PROVE Same
  BY <1>9, <1>b DEF Same, BeginSleep, Active, LogInv, TypeOK
<1>10. ASSUME NEW p \in Proc, BeginOp(p) PROVE Abstract!Begin(p)
  BY <1>10, <1>b DEF BeginOp, Abstract!Begin, Active, LogInv, TypeOK
<1>11. ASSUME NEW p \in Proc, LogWrite(p) PROVE Same
  BY <1>11, <1>b DEF Same, LogWrite, Active, LogInv, TypeOK
<1>12. ASSUME NEW p \in Proc, LogPanic(p) PROVE Same
  BY <1>12, <1>b DEF Same, LogPanic, Active
<1>13. ASSUME NEW p \in Proc, EndOp(p) PROVE Abstract!End(p)
  BY <1>13, <1>b DEF EndOp, Woken, Abstract!End, Active, LogInv, TypeOK
<1>14. ASSUME NEW p \in Proc, EndOpCommit(p) PROVE Abstract!End(p)
  <2>1. stage = "run" /\ stage' \notin Recovering
    BY <1>14 DEF EndOpCommit, LogInv, StageInv, Active, Recovering
  <2> QED
    BY <1>14, <2>1, <1>b DEF EndOpCommit, Abstract!End, Active, LogInv, TypeOK, Recovering
<1>15. ASSUME NEW p \in Proc, NEW b \in Block, NEW v \in Val, Modify(p, b, v)
       PROVE  Abstract!Write(p, b, v)
  <2>1. /\ stage \notin Recovering /\ stage' = stage /\ home' = home
        /\ cache' = [cache EXCEPT ![b] = v] /\ UNCHANGED <<dlog, dhead>>
    BY <1>15 DEF Modify, Up
  <2>2. Current = [c \in Block |-> Read(c)]
        /\ Current' = [c \in Block |-> IF cache'[c] = NoBlock THEN home'[c] ELSE cache'[c]]
    BY <2>1 DEF Current, Read
  <2>3. Current' = [Current EXCEPT ![b] = v]
    BY <2>1, <2>2, LogAssumption DEF Read, LogInv, TypeOK
  <2>4. p \in Active /\ Active' = Active
    BY <1>15 DEF Modify, Active, LogInv, TypeOK
  <2> QED
    BY <2>1, <2>3, <2>4, <1>a DEF Abstract!Write
<1>16. ASSUME NEW b \in Block, Fill(b) PROVE Same
  <2>1. /\ stage \notin Recovering /\ stage' = stage /\ home' = home
        /\ cache[b] = NoBlock /\ cache' = [cache EXCEPT ![b] = home[b]]
        /\ UNCHANGED <<dlog, dhead, pc>>
    BY <1>16 DEF Fill, Up
  <2>2. ASSUME NEW c \in Block
        PROVE  (IF cache'[c] = NoBlock THEN home'[c] ELSE cache'[c]) = Read(c)
    BY <2>1 DEF Read, LogInv, TypeOK
  <2> QED
    BY <2>1, <2>2, <1>a DEF Same, Current, Read, Active
<1>17. ASSUME NEW b \in Block, Recycle(b) PROVE Same
  <2>1. /\ stage \notin Recovering /\ stage' = stage /\ home' = home
        /\ cache' = [cache EXCEPT ![b] = NoBlock]
        /\ UNCHANGED <<dlog, dhead, pc>>
        /\ pin[b] = 0 /\ \A p \in Proc : held[p] # b
    BY <1>17 DEF Recycle, Up
  <2>2. ASSUME NEW c \in Block
        PROVE  (IF cache'[c] = NoBlock THEN home'[c] ELSE cache'[c]) = Read(c)
    <3>1. CASE c = b
      BY <2>1, <3>1, ReadHome DEF LogInv, TypeOK
    <3>2. CASE c # b
      BY <2>1, <3>2 DEF Read, LogInv, TypeOK
    <3> QED
      BY <3>1, <3>2
  <2> QED
    BY <2>1, <2>2, <1>a DEF Same, Current, Read, Active
<1>18. CASE Crash
  <2>1. Recovered' = Recovered /\ Current' = Recovered' /\ Active' = {}
    BY <1>18, <1>a DEF Crash, Current, Recovering, Active
  <2> QED
    BY <2>1 DEF Abstract!Crash, Abstract!Next
<1>19. CASE UNCHANGED vars
  <2>1. Same
    BY <1>19, <1>b DEF Same, vars, Active
  <2> QED
    BY <1>0, <2>1
<1> QED
  BY <1>0, <1>1, <1>2, <1>3, <1>4, <1>5, <1>6, <1>7, <1>8, <1>9, <1>10, <1>11, <1>12,
     <1>13, <1>14, <1>15, <1>16, <1>17, <1>18, <1>19 DEF Next, Recover, Commit, Abstract!Next

\* File system calls are atomic with respect to crashes, for any number of
\* processes, blocks, crashes and interrupted recoveries (log.c:12-16, 99-101).
THEOREM LogRefinesAtomicDisk == Safety => CrashAtomic
<1>1. Init => Abstract!Init
  <2> SUFFICES ASSUME Init PROVE Abstract!Init
    OBVIOUS
  <2>1. Recovered = home /\ home \in [Block -> Val]
    BY EmptyIsRecovered DEF Init
  <2>2. Current = Recovered /\ Active = {}
    BY DEF Init, Current, Recovering, Active
  <2> QED
    BY <2>1, <2>2 DEF Abstract!Init
<1>2. LogInv /\ LogInv' /\ [Next]_vars => [Abstract!Next]_(Abstract!vars)
  BY StepRefines
<1> QED
  BY <1>1, <1>2, LogConsistent, PTL DEF Safety, CrashAtomic, Abstract!Spec
=============================================================================
