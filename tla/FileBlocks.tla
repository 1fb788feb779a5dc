----------------------------- MODULE FileBlocks -----------------------------
(***************************************************************************)
(* The content of files: the block bitmap, direct and indirect blocks,     *)
(* bmap(), itrunc(), readi(), writei() (fs.c) and the transactions of      *)
(* filewrite() (file.c).                                                   *)
(*                                                                         *)
(* Each file has one writer at a time, which holds the inode's lock during *)
(* a transaction; the files share the bitmap.  One turn of writei()'s loop *)
(* is a step.  ideal is not in the code: it is what the writes should have *)
(* made of each file.                                                      *)
(***************************************************************************)
EXTENDS Integers, Sequences, FiniteSets

CONSTANTS File, Byte,
          BSIZE, NDIRECT, NINDIRECT, MAXOPBLOCKS,
          Block,        \* the numbers of the data blocks
          Lens,         \* the lengths of write() calls
          MaxOthers,    \* the most blocks of other files at a time
          OpBlocks      \* what one transaction may log, see Log

ASSUME BlocksAssumption ==
    /\ BSIZE \in Nat \ {0} /\ NDIRECT \in Nat /\ NINDIRECT \in Nat
    /\ Block \subseteq Nat \ {0} /\ 0 \notin Byte /\ Lens \subseteq Nat
    /\ MaxOthers \in Nat

MAXFILE == NDIRECT + NINDIRECT

VARIABLES used,         \* the bitmap
          others,       \* the blocks of directories and of other files
          data,         \* the bytes of each block
          ind,          \* each block as an indirect block
          addrs, size,  \* of each inode
          w,            \* each writer: where it is in filewrite()
          logged,       \* the blocks its transaction has logged
          ideal,        \* what each file should hold
          panicked

vars == <<used, others, data, ind, addrs, size, w, logged, ideal, panicked>>

Zeros == [i \in 0 .. BSIZE - 1 |-> 0]
NoAddrs == [j \in 0 .. NINDIRECT - 1 |-> 0]
Idle == [pc |-> "idle", off |-> 0, v |-> 0, left |-> 0, n1 |-> 0, tot |-> 0]

TypeOK ==
    /\ used \subseteq Block /\ others \subseteq Block
    /\ data \in [Block -> [0 .. BSIZE - 1 -> {0} \cup Byte]]
    /\ ind \in [Block -> [0 .. NINDIRECT - 1 -> {0} \cup Block]]
    /\ addrs \in [File -> [0 .. NDIRECT -> {0} \cup Block]]
    /\ size \in [File -> 0 .. MAXFILE * BSIZE]
    /\ \A f \in File : /\ w[f].pc \in {"idle", "chunk", "loop"}
                       /\ w[f].off \in 0 .. MAXFILE * BSIZE /\ w[f].left \in Nat
                       /\ w[f].n1 \in Nat /\ w[f].tot \in 0 .. w[f].n1
    /\ ideal \in [File -> Seq(Byte)]
    /\ panicked \in BOOLEAN

Init ==
    /\ used = {} /\ others = {} /\ data = [b \in Block |-> Zeros] /\ ind = [b \in Block |-> NoAddrs]
    /\ addrs = [f \in File |-> [i \in 0 .. NDIRECT |-> 0]] /\ size = [f \in File |-> 0]
    /\ w = [f \in File |-> Idle] /\ logged = [f \in File |-> {}]
    /\ ideal = [f \in File |-> <<>>]
    /\ panicked = FALSE

Least(a, b) == IF a < b THEN a ELSE b

-----------------------------------------------------------------------------
(* Blocks *)

\* balloc(): the first free block, 0 if there is none.
balloc(u) ==
    IF Block \subseteq u THEN 0
    ELSE CHOOSE b \in Block \ u : \A c \in Block \ u : b <= c

\* What bmap() works on, and the blocks it logs.
Maps(f) == [addr |-> 0, used |-> used, data |-> data, ind |-> ind,
            addrs |-> addrs[f], log |-> {}]

\* balloc() marks the block and zeroes it, logging both; nothing if it fails.
Alloc(r) ==
    LET b == balloc(r.used) IN
    IF b = 0 THEN [r EXCEPT !.addr = 0]
    ELSE [r EXCEPT !.addr = b, !.used = @ \cup {b}, !.log = @ \cup {<<"bitmap">>, <<"block", b>>},
                   !.data[b] = Zeros, !.ind[b] = NoAddrs]

\* An address in the inode, allocated if it is 0.
Direct(r, i) ==
    IF r.addrs[i] # 0 THEN [r EXCEPT !.addr = r.addrs[i]]
    ELSE LET a == Alloc(r) IN
         IF a.addr = 0 THEN a ELSE [a EXCEPT !.addrs[i] = a.addr]

\* An address in the indirect block, which is allocated if it has to be.
Indirect(r, j) ==
    LET t == Direct(r, NDIRECT)
        a == Alloc(t)
    IN  IF t.addr = 0 THEN t
        ELSE IF t.ind[t.addr][j] # 0 THEN [t EXCEPT !.addr = t.ind[t.addr][j]]
        ELSE IF a.addr = 0 THEN a
        ELSE [a EXCEPT !.ind[t.addr][j] = a.addr, !.log = @ \cup {<<"block", t.addr>>}]

bmap(r, bn) == IF bn < NDIRECT THEN Direct(r, bn) ELSE Indirect(r, bn - NDIRECT)

\* The address of block bn of file f as it stands.
Addr(f, bn) ==
    IF bn < NDIRECT THEN addrs[f][bn]
    ELSE IF addrs[f][NDIRECT] = 0 THEN 0 ELSE ind[addrs[f][NDIRECT]][bn - NDIRECT]

-----------------------------------------------------------------------------
(* filewrite() and writei() *)

\* The content s with k bytes v from off on.
Overlay(s, off, k, v) ==
    [i \in 1 .. (IF off + k > Len(s) THEN off + k ELSE Len(s)) |->
        IF off < i /\ i <= off + k THEN v ELSE IF i <= Len(s) THEN s[i] ELSE 0]

\* write(): at the offset of some open file, past the end of the file perhaps.
FileWrite(f, off, n, v) ==
    /\ w[f].pc = "idle"
    /\ w' = [w EXCEPT ![f] = [Idle EXCEPT !.pc = "chunk", !.off = off, !.left = n, !.v = v]]
    /\ UNCHANGED <<used, others, data, ind, addrs, size, logged, ideal, panicked>>

maxWhole == MAXOPBLOCKS * BSIZE                                 \* mutant
max == ((MAXOPBLOCKS - 1 - 1 - 2) \div 2) * BSIZE
n1(f) == Least(w[f].left, max)

\* begin_op(), ilock(), and the checks of writei().
ChunkBegin(f) ==
    /\ w[f].pc = "chunk" /\ w[f].left > 0
    /\ w' = [w EXCEPT ![f] =
           IF w[f].off > size[f] \/ w[f].off + n1(f) > MAXFILE * BSIZE THEN Idle
           ELSE [@ EXCEPT !.pc = "loop", !.n1 = n1(f), !.tot = 0]]
    /\ logged' = [logged EXCEPT ![f] = {}]
    /\ UNCHANGED <<used, others, data, ind, addrs, size, ideal, panicked>>

FileWriteDone(f) ==
    /\ w[f].pc = "chunk" /\ w[f].left = 0
    /\ w' = [w EXCEPT ![f] = Idle]
    /\ UNCHANGED <<used, others, data, ind, addrs, size, logged, ideal, panicked>>

mUnaligned(f) == Least(w[f].n1 - w[f].tot, BSIZE)               \* mutant
m(f) == Least(w[f].n1 - w[f].tot, BSIZE - (w[f].off % BSIZE))

More(f) == w[f].pc = "loop" /\ w[f].tot < w[f].n1
Mapped(f) == bmap(Maps(f), w[f].off \div BSIZE)

\* The block is found or allocated, and k bytes are copied into it.
Copy(f, r, k) ==
    LET o == w[f].off % BSIZE
        Copied(i) == o <= i /\ i < o + k
    IN  /\ used' = r.used /\ ind' = r.ind /\ addrs' = [addrs EXCEPT ![f] = r.addrs]
        /\ data' = IF k = 0 THEN r.data
                   ELSE [r.data EXCEPT ![r.addr] =
                            [i \in 0 .. BSIZE - 1 |-> IF Copied(i) THEN w[f].v ELSE @[i]]]

WriteBlock(f) ==
    LET r == Mapped(f) IN
    /\ More(f) /\ r.addr # 0
    /\ Copy(f, r, m(f))
    /\ logged' = [logged EXCEPT ![f] = @ \cup r.log \cup {<<"block", r.addr>>}]
    /\ w' = [w EXCEPT ![f].tot = @ + m(f), ![f].off = @ + m(f)]
    /\ ideal' = [ideal EXCEPT ![f] = Overlay(@, w[f].off, m(f), w[f].v)]
    /\ UNCHANGED <<others, size, panicked>>

\* writei() after its loop, with iupdate(), then iunlock() and end_op();
\* filewrite() goes on if the chunk is complete.
End(f, log) ==
    /\ size' = [size EXCEPT ![f] = IF w[f].off > @ THEN w[f].off ELSE @]
    /\ w' = [w EXCEPT ![f] = IF @.tot = @.n1
                             THEN [@ EXCEPT !.pc = "chunk", !.left = @ - w[f].n1, !.n1 = 0, !.tot = 0]
                             ELSE Idle]
    /\ logged' = [logged EXCEPT ![f] = @ \cup log \cup {<<"inode", f>>}]
    /\ UNCHANGED <<others, panicked>>

ChunkDone(f) ==
    /\ w[f].pc = "loop" /\ w[f].tot = w[f].n1
    /\ End(f, {})
    /\ UNCHANGED <<used, others, data, ind, addrs, ideal>>

WriteNoBlockLost(f) ==                                          \* mutant
    LET r == Mapped(f) IN
    /\ More(f) /\ r.addr = 0
    /\ used' = r.used /\ ind' = r.ind /\ data' = r.data /\ UNCHANGED addrs
    /\ End(f, r.log)
    /\ UNCHANGED ideal
\* The disk is full.  An indirect block may have been allocated all the same.
WriteNoBlock(f) ==
    LET r == Mapped(f) IN
    /\ More(f) /\ r.addr = 0
    /\ Copy(f, r, 0)
    /\ End(f, r.log)
    /\ UNCHANGED ideal

\* either_copyin() fails after k bytes; the block is not logged.  What was
\* copied below the size shows.
WriteBadAddress(f, k) ==
    LET r == Mapped(f)
        shown == IF w[f].off < size[f] THEN Least(k, size[f] - w[f].off) ELSE 0
    IN
    /\ More(f) /\ r.addr # 0 /\ k < m(f)
    /\ Copy(f, r, k)
    /\ ideal' = [ideal EXCEPT ![f] = Overlay(@, w[f].off, shown, w[f].v)]
    /\ End(f, r.log)

-----------------------------------------------------------------------------
(* itrunc(), from open() with O_TRUNC, or from iput() of an unlinked file *)

Unlocked(f) == w[f].pc # "loop"

\* What itrunc() frees: the direct blocks, those in the indirect block, and
\* the indirect block.
Blocks(f) ==
    LET a == addrs[f][NDIRECT] IN
    ({addrs[f][i] : i \in 0 .. NDIRECT} \cup (IF a = 0 THEN {} ELSE {ind[a][j] : j \in DOMAIN ind[a]}))
        \ {0}

\* bfree() panics if one of them is free.
itrunc(f) ==
    /\ Unlocked(f)
    /\ panicked' = ~(Blocks(f) \subseteq used)
    /\ used' = used \ Blocks(f)
    /\ addrs' = [addrs EXCEPT ![f] = [i \in 0 .. NDIRECT |-> 0]]
    /\ size' = [size EXCEPT ![f] = 0]
    /\ ideal' = [ideal EXCEPT ![f] = <<>>]
    /\ UNCHANGED <<others, data, ind, w, logged>>

-----------------------------------------------------------------------------
(* The rest of the file system: balloc() and bfree() by other calls *)

OtherAlloc ==
    /\ Cardinality(others) < MaxOthers /\ balloc(used) # 0
    /\ used' = used \cup {balloc(used)} /\ others' = others \cup {balloc(used)}
    /\ data' = [data EXCEPT ![balloc(used)] = Zeros]
    /\ ind' = [ind EXCEPT ![balloc(used)] = NoAddrs]
    /\ UNCHANGED <<addrs, size, w, logged, ideal, panicked>>

OtherFree(b) ==
    /\ b \in others
    /\ panicked' = (b \notin used)
    /\ used' = used \ {b} /\ others' = others \ {b}
    /\ UNCHANGED <<data, ind, addrs, size, w, logged, ideal>>

-----------------------------------------------------------------------------
Next ==
    /\ ~panicked
    /\ \/ OtherAlloc \/ \E b \in Block : OtherFree(b)
       \/ \E f \in File :
             \/ \E off \in 0 .. MAXFILE * BSIZE, n \in Lens, v \in Byte : FileWrite(f, off, n, v)
             \/ ChunkBegin(f) \/ FileWriteDone(f)
             \/ WriteBlock(f) \/ ChunkDone(f) \/ WriteNoBlock(f)
             \/ \E k \in 0 .. BSIZE - 1 : WriteBadAddress(f, k)
             \/ itrunc(f)

Spec == Init /\ [][Next]_vars

-----------------------------------------------------------------------------
(* Properties *)

\* What readi() returns of file f, from its beginning.
readi(f) == [i \in 1 .. size[f] |-> data[Addr(f, (i - 1) \div BSIZE)][(i - 1) % BSIZE]]

\* A file below its size has no hole: readi() never comes to a block that bmap()
\* would have to allocate, which it does outside of any transaction (fs.c:483).
NoHole ==
    \A f \in File : \A i \in 0 .. size[f] - 1 : Addr(f, i \div BSIZE) # 0

\* readi() returns what the writes have made of the file, short and failed ones
\* included (fs.c:471-539).
ReadsBack ==
    \A f \in File : Unlocked(f) /\ (\A i \in 0 .. size[f] - 1 : Addr(f, i \div BSIZE) # 0)
                    => readi(f) = ideal[f]

\* The bitmap has the blocks that are in use and no other, and none is used
\* twice: nothing leaks when a write fails half-way, and bfree() never finds a
\* block free (fs.c:65-105, 382-453).
BitmapExact ==
    /\ used = others \cup UNION {Blocks(f) : f \in File}
    /\ \A f \in File : Blocks(f) \cap others = {}
    /\ \A f, g \in File : f # g => Blocks(f) \cap Blocks(g) = {}
    /\ ~panicked

\* One transaction of filewrite() logs no more blocks than OpBlocks, which is
\* what makes log_write() safe from a full log (file.c:151-157).
OpFits == \A f \in File : Cardinality(logged[f]) <= OpBlocks

\* Blocks, bitmap and sizes agree, after every write that was cut short.
BlocksAccounted == TypeOK /\ BitmapExact /\ NoHole
=============================================================================
