----------------------------- MODULE BootProofs -----------------------------
(***************************************************************************)
(* From the first instruction of the bootloader to the scheduler: the      *)
(* bootloader goes past is_secure_boot() only with the trusted image, and  *)
(* main() hands over to the other harts only what is set up.               *)
(***************************************************************************)
EXTENDS SecureBoot, KernelStart, TLAPS

-----------------------------------------------------------------------------
(* The bootloader, for every image size, block size and content. *)

\* Dividing a size by the block size, as find_kernel_size's callers do.
LEMMA DivMod ==
    ASSUME NEW s \in Nat, NEW B \in Nat \ {0}
    PROVE  /\ s \div B \in Nat /\ s % B \in 0 .. B - 1
           /\ s = B * (s \div B) + (s % B)
  BY SMT

\* D tells the length of a file of size s, each of its whole blocks, and its
\* remainder, block and length.
Describes(D, s, img) ==
    /\ D \in Seq(Content \X (1 .. BSIZE))
    /\ Len(D) = IF s % BSIZE = 0 THEN s \div BSIZE ELSE s \div BSIZE + 1
    /\ \A j \in 1 .. s \div BSIZE : D[j] = <<img[j - 1], BSIZE>>
    /\ s % BSIZE # 0 =>
           D[s \div BSIZE + 1] = <<img[s \div BSIZE], s % BSIZE>>

\* So does the digest of a file.
LEMMA DigestShape ==
    ASSUME NEW s \in Nat, NEW img \in [0 .. MaxBlock -> Content],
           BSIZE \in Nat \ {0}, s < (MaxBlock + 1) * BSIZE, MaxBlock \in Nat
    PROVE  Describes(Digest(s, img), s, img)
<1> DEFINE n == s \div BSIZE
           full == [j \in 1 .. n |-> <<img[j - 1], BSIZE>>]
           E == Content \X (1 .. BSIZE)
<1>1. n \in Nat /\ s % BSIZE \in 0 .. BSIZE - 1 /\ s = BSIZE * n + (s % BSIZE)
  BY DivMod
<1>2. n \in 0 .. MaxBlock
  <2>1. BSIZE * n < (MaxBlock + 1) * BSIZE
    BY <1>1
  <2>2. n < MaxBlock + 1
    <3> SUFFICES ASSUME n >= MaxBlock + 1 PROVE FALSE
      BY <1>1
    <3> HIDE DEF n
    <3>1. BSIZE * n >= BSIZE * (MaxBlock + 1)
      BY <1>1, SMT
    <3> QED
      BY <3>1, <2>1, <1>1, SMT
  <2> QED
    BY <2>2, <1>1
<1> HIDE DEF n
<1>3. /\ full \in Seq(E) /\ Len(full) = n
      /\ \A j \in 1 .. n : full[j] = <<img[j - 1], BSIZE>>
  <2>1. \A j \in 1 .. n : <<img[j - 1], BSIZE>> \in E
    BY <1>2
  <2>2. full \in [1 .. n -> E]
    BY <2>1
  <2> QED
    BY <2>2, <1>1
<1>4. Digest(s, img) = IF s % BSIZE = 0 THEN full ELSE Append(full, <<img[n], s % BSIZE>>)
  BY DEF Digest, n
<1>5. CASE s % BSIZE = 0
  BY <1>3, <1>4, <1>5 DEF n, Describes
<1>6. CASE s % BSIZE # 0
  <2>1. <<img[n], s % BSIZE>> \in E
    BY <1>1, <1>2, <1>6
  <2> DEFINE last == <<img[n], s % BSIZE>>
  <2> HIDE DEF last, full, E
  <2>2. /\ Append(full, last) \in Seq(E) /\ Len(Append(full, last)) = n + 1
        /\ \A j \in 1 .. n : Append(full, last)[j] = full[j]
        /\ Append(full, last)[n + 1] = last
    <3>1. full \in Seq(E) /\ Len(full) = n /\ last \in E /\ n \in Nat
      BY <1>1, <1>3, <2>1 DEF last, E, full
    <3> QED
      BY <3>1
  <2> QED
    BY <1>3, <1>4, <1>6, <2>2 DEF n, last, E, Describes
<1> QED
  BY <1>5, <1>6

\* Two files with the same digest are the same file: what memcmp at
\* start.c:107 establishes about the image.
LEMMA DigestInjective ==
    ASSUME size \in Sizes, image \in [0 .. MaxBlock -> Content],
           Digest(size, image) = TrustedHash
    PROVE  Genuine
<1> DEFINE n == size \div BSIZE
           tn == TrustedSize \div BSIZE
<1>1. /\ size \in Nat /\ size < (MaxBlock + 1) * BSIZE
      /\ TrustedSize \in Nat /\ TrustedSize < (MaxBlock + 1) * BSIZE
      /\ BSIZE \in Nat \ {0} /\ MaxBlock \in Nat
      /\ TrustedImage \in [0 .. MaxBlock -> Content]
  BY BootAssumption
<1>2. /\ n \in Nat /\ size % BSIZE \in 0 .. BSIZE - 1
      /\ size = BSIZE * n + (size % BSIZE)
      /\ tn \in Nat /\ TrustedSize % BSIZE \in 0 .. BSIZE - 1
      /\ TrustedSize = BSIZE * tn + (TrustedSize % BSIZE)
  BY <1>1, DivMod, Zenon
<1> DEFINE D == Digest(size, image)
<1>3. /\ Len(D) = IF size % BSIZE = 0 THEN n ELSE n + 1
      /\ \A j \in 1 .. n : D[j] = <<image[j - 1], BSIZE>>
      /\ size % BSIZE # 0 => D[n + 1] = <<image[n], size % BSIZE>>
  <2>1. Describes(D, size, image)
    BY <1>1, DigestShape
  <2> HIDE DEF D
  <2> QED
    BY <2>1 DEF Describes
<1>4. /\ Len(D) = IF TrustedSize % BSIZE = 0 THEN tn ELSE tn + 1
      /\ \A j \in 1 .. tn : D[j] = <<TrustedImage[j - 1], BSIZE>>
      /\ TrustedSize % BSIZE # 0 => D[tn + 1] = <<TrustedImage[tn], TrustedSize % BSIZE>>
  <2>1. D = Digest(TrustedSize, TrustedImage)
    BY DEF TrustedHash
  <2>2. Describes(Digest(TrustedSize, TrustedImage), TrustedSize, TrustedImage)
    BY <1>1, DigestShape
  <2>3. Describes(D, TrustedSize, TrustedImage)
    BY <2>1, <2>2
  <2> HIDE DEF D
  <2> QED
    BY <2>3 DEF Describes
<1> HIDE DEF D, n, tn
<1>5. n = tn /\ size % BSIZE = TrustedSize % BSIZE
  <2>1. CASE size % BSIZE = 0 /\ TrustedSize % BSIZE = 0
    BY <2>1, <1>3, <1>4
  <2>2. CASE size % BSIZE # 0 /\ TrustedSize % BSIZE # 0
    BY <2>2, <1>2, <1>3, <1>4
  <2>3. CASE size % BSIZE = 0 /\ TrustedSize % BSIZE # 0
    <3>1. n = tn + 1 /\ n \in 1 .. n
      BY <2>3, <1>2, <1>3, <1>4
    <3>2. D[n] = <<image[n - 1], BSIZE>> /\ D[n] = <<TrustedImage[tn], TrustedSize % BSIZE>>
      BY <3>1, <2>3, <1>3, <1>4
    <3> QED
      BY <3>2, <1>1, <1>2
  <2>4. CASE size % BSIZE # 0 /\ TrustedSize % BSIZE = 0
    <3>1. tn = n + 1 /\ tn \in 1 .. tn
      BY <2>4, <1>2, <1>3, <1>4
    <3>2. D[tn] = <<TrustedImage[tn - 1], BSIZE>> /\ D[tn] = <<image[n], size % BSIZE>>
      BY <3>1, <2>4, <1>3, <1>4
    <3> QED
      BY <3>2, <1>1, <1>2
  <2> QED
    BY <2>1, <2>2, <2>3, <2>4
<1>6. size = TrustedSize
  BY <1>2, <1>5
<1>7. ASSUME NEW b \in 0 .. n, b * BSIZE < size
      PROVE  image[b] = TrustedImage[b]
  <2>1. CASE b < n
    <3>1. b + 1 \in 1 .. n /\ b + 1 \in 1 .. tn /\ (b + 1) - 1 = b
      BY <2>1, <1>2, <1>5
    <3>2. D[b + 1] = <<image[b], BSIZE>> /\ D[b + 1] = <<TrustedImage[b], BSIZE>>
      BY <3>1, <1>3, <1>4
    <3> QED
      BY <3>2
  <2>2. CASE b = n
    <3>1. size % BSIZE # 0
      <4> SUFFICES ASSUME size % BSIZE = 0 PROVE FALSE
        OBVIOUS
      <4>1. size = BSIZE * n /\ n * BSIZE < size /\ BSIZE \in Nat /\ n \in Nat
        BY <1>1, <1>2, <1>7, <2>2
      <4>2. BSIZE * n = n * BSIZE
        BY <4>1
      <4> QED
        BY <4>1, <4>2
    <3> QED
      BY <3>1, <2>2, <1>3, <1>4, <1>5
  <2> QED
    BY <2>1, <2>2, <1>2
<1> QED
  BY <1>6, <1>7 DEF Genuine, NumBlocks, n

\* The blocks hashed so far are the first ones of the image.
Absorbed(h) ==
    /\ ctx \in Seq(Content \X (1 .. BSIZE))
    /\ blk[h] \in 0 .. NumBlocks /\ Len(ctx) = blk[h]
    /\ \A j \in 1 .. blk[h] : ctx[j] = <<image[j - 1], BSIZE>>

\* The inductive invariant behind VerifiedBoot: the context follows the loop
\* of is_secure_boot(), the measurement is the digest of the image, and only
\* the trusted digest leads past the comparison.
MeasureInv(h) ==
    /\ size \in Sizes /\ image \in [0 .. MaxBlock -> Content]
    /\ pc \in [Hart -> {"entry", "measure", "compare", "load", "kernel", "panic"}]
    /\ blk \in [Hart -> Nat]
    /\ pc[h] = "measure" => Absorbed(h)
    /\ pc[h] = "compare" => observed = Digest(size, image)
    /\ pc[h] \in {"load", "kernel"} => Digest(size, image) = TrustedHash

\* Hashing the remainder after all whole blocks gives the digest of the file.
LEMMA RestCompletesDigest ==
    ASSUME NEW h, size \in Sizes, image \in [0 .. MaxBlock -> Content],
           Absorbed(h), blk[h] >= NumBlocks
    PROVE  (IF RemSize = 0 THEN ctx ELSE Append(ctx, <<image[NumBlocks], RemSize>>))
               = Digest(size, image)
<1> DEFINE n == NumBlocks
           full == [j \in 1 .. n |-> <<image[j - 1], BSIZE>>]
<1>1. size \in Nat /\ BSIZE \in Nat \ {0}
  BY BootAssumption
<1>2. n \in Nat /\ size % BSIZE \in 0 .. BSIZE - 1 /\ size = BSIZE * n + (size % BSIZE)
  BY <1>1, DivMod, Zenon DEF NumBlocks
<1>3. RemSize = size % BSIZE
  <2>1. BSIZE * n \in Nat
    BY <1>1, <1>2
  <2> HIDE DEF n
  <2> QED
    BY <1>1, <1>2, <2>1 DEF RemSize, n
<1>4. ctx = full
  <2>1. blk[h] = n
    BY <1>2 DEF Absorbed
  <2>2. ctx \in Seq(Content \X (1 .. BSIZE)) /\ Len(ctx) = n
        /\ \A j \in 1 .. n : ctx[j] = <<image[j - 1], BSIZE>>
    BY <2>1 DEF Absorbed
  <2>3. ctx = [j \in 1 .. n |-> ctx[j]]
    BY <2>2, <1>2
  <2> QED
    BY <2>2, <2>3
<1> QED
  BY <1>3, <1>4 DEF Digest, NumBlocks

\* Init establishes the invariant.
LEMMA MeasureInit ==
    ASSUME NEW h \in Hart, Init PROVE MeasureInv(h)
  BY DEF Init, MeasureInv

\* Every step of the only hart keeps it.
LEMMA MeasureStep ==
    ASSUME NEW h \in Hart, Hart = {h}, MeasureInv(h), [Next]_vars
    PROVE  MeasureInv(h)'
<1> USE DEF MeasureInv
<1>0. size \in Nat /\ BSIZE \in Nat \ {0} /\ MaxBlock \in Nat
  BY BootAssumption
<1>n. NumBlocks \in Nat
  BY <1>0, DivMod, Zenon DEF NumBlocks
<1>1. CASE StartHart(h)
  <2>1. Absorbed(h)'
    BY <1>1, <1>n DEF StartHart, Absorbed, NumBlocks
  <2> QED
    BY <1>1, <2>1 DEF StartHart
<1>2. CASE CopyPanics(h)
  BY <1>2 DEF CopyPanics, Panic
<1>3. CASE Measure(h)
  <2>1. blk'[h] = blk[h] + 1 /\ NumBlocks' = NumBlocks /\ image' = image
    BY <1>3 DEF Measure, NumBlocks
  <2>2. image[blk[h]] \in Content
    <3>1. blk[h] \in 0 .. MaxBlock
      <4>1. size < (MaxBlock + 1) * BSIZE /\ size = BSIZE * NumBlocks + (size % BSIZE)
            /\ size % BSIZE \in Nat
        BY BootAssumption, <1>0, DivMod DEF NumBlocks
      <4>2. BSIZE * NumBlocks <= size /\ BSIZE * NumBlocks \in Nat
        BY <4>1, <1>0, <1>n
      <4>3. NumBlocks < MaxBlock + 1
        <5> SUFFICES ASSUME NumBlocks >= MaxBlock + 1 PROVE FALSE
          BY <1>0, <1>n
        <5>1. BSIZE * NumBlocks >= BSIZE * (MaxBlock + 1)
          BY <1>0, <1>n
        <5> QED
          BY <5>1, <4>1, <4>2, <1>0
      <4> QED
        BY <4>3, <1>3, <1>0, <1>n DEF Measure
    <3> QED
      BY <3>1
  <2>3. Absorbed(h)'
    <3>1. Absorbed(h) /\ blk[h] < NumBlocks
      BY <1>3 DEF Measure
    <3> DEFINE e == <<image[blk[h]], BSIZE>>
    <3>2. ctx' = Append(ctx, e) /\ e \in Content \X (1 .. BSIZE)
      BY <1>3, <2>2, <1>0 DEF Measure
    <3>3. /\ ctx' \in Seq(Content \X (1 .. BSIZE)) /\ Len(ctx') = blk[h] + 1
          /\ \A j \in 1 .. blk[h] : ctx'[j] = ctx[j]
          /\ ctx'[blk[h] + 1] = e
      <4> HIDE DEF e
      <4> QED
        BY <3>1, <3>2 DEF Absorbed
    <3>4. \A j \in 1 .. blk[h] + 1 : ctx'[j] = <<image[j - 1], BSIZE>>
      <4> SUFFICES ASSUME NEW j \in 1 .. blk[h] + 1
                   PROVE  ctx'[j] = <<image[j - 1], BSIZE>>
        OBVIOUS
      <4>1. CASE j \in 1 .. blk[h]
        BY <4>1, <3>1, <3>3 DEF Absorbed
      <4>2. CASE j = blk[h] + 1
        BY <4>2, <3>1, <3>3, <1>n DEF Absorbed
      <4> QED
        BY <4>1, <4>2, <3>1, <1>n DEF Absorbed
    <3> QED
      BY <3>1, <3>3, <3>4, <2>1, <1>n DEF Absorbed
  <2> QED
    BY <1>3, <2>3 DEF Measure
<1>4. CASE MeasureRest(h)
  <2>1. observed' = Digest(size, image)
    BY <1>4, RestCompletesDigest DEF MeasureRest
  <2>2. Digest(size, image)' = Digest(size, image)
    BY <1>4 DEF MeasureRest, Digest
  <2> QED
    BY <1>4, <2>1, <2>2 DEF MeasureRest
<1>5. CASE Compare(h)
  <2>1. Digest(size, image)' = Digest(size, image)
    BY <1>5, Zenon DEF Compare, Panic, Digest
  <2> QED
    BY <1>5, <2>1 DEF Compare, Panic
<1>6. CASE Load(h)
  <2>1. Digest(size, image)' = Digest(size, image)
    BY <1>6 DEF Load, Digest
  <2> QED
    BY <1>6, <2>1 DEF Load
<1>7. CASE JumpToKernel(h)
  <2>1. Digest(size, image)' = Digest(size, image)
    BY <1>7 DEF JumpToKernel, Digest
  <2> QED
    BY <1>7, <2>1 DEF JumpToKernel
<1>8. CASE UNCHANGED vars
  BY <1>8, Zenon DEF vars, Absorbed, NumBlocks, Digest
<1> QED
  BY <1>1, <1>2, <1>3, <1>4, <1>5, <1>6, <1>7, <1>8, Zenon DEF Next, Step

\* Only the trusted kernel runs on a one-hart machine: whatever the image on
\* the RAM disk, start() goes past is_secure_boot() (start.c:128) only when the
\* image is the file trusted_kernel_hash was computed from.
THEOREM SecureBootVerifies ==
    ASSUME NEW h \in Hart, Hart = {h}
    PROVE  Spec => []VerifiedBoot
<1>1. Init => MeasureInv(h)
  BY MeasureInit
<1>2. MeasureInv(h) /\ [Next]_vars => MeasureInv(h)'
  BY MeasureStep
<1>3. MeasureInv(h) => VerifiedBoot
  BY DigestInjective DEF MeasureInv, VerifiedBoot
<1> QED
  BY <1>1, <1>2, <1>3, PTL DEF Spec

-----------------------------------------------------------------------------
\* An inequality of products is one of their factors.
LEMMA CancelFactor ==
    ASSUME NEW a \in Nat, NEW b \in Nat, NEW c \in Nat \ {0}, c * a < c * b PROVE a < b
<1> SUFFICES ASSUME a >= b PROVE FALSE
  OBVIOUS
<1>1. c * a >= c * b
  OBVIOUS
<1> QED
  BY <1>1

\* The numbers of blocks that the loops of is_secure_boot() and start() go
\* through stay within the image.
LEMMA BlockCounts ==
    ASSUME size \in Sizes
    PROVE  /\ NumBlocks \in 0 .. MaxBlock /\ RemSize \in 0 .. BSIZE - 1
           /\ ReloadBlocks \in Nat /\ ReloadBlocks <= NumBlocks
<1> DEFINE n == NumBlocks
           r == ReloadBlocks
<1>1. /\ size \in Nat /\ size < (MaxBlock + 1) * BSIZE
      /\ BSIZE \in Nat \ {0} /\ FSSIZE \in Nat \ {0} /\ FSSIZE >= BSIZE /\ MaxBlock \in Nat
  BY BootAssumption
<1>2. n \in Nat /\ size % BSIZE \in 0 .. BSIZE - 1 /\ size = BSIZE * n + (size % BSIZE)
  BY <1>1, DivMod, Zenon DEF NumBlocks
<1>3. r \in Nat /\ size % FSSIZE \in 0 .. FSSIZE - 1 /\ size = FSSIZE * r + (size % FSSIZE)
  BY <1>1, DivMod, Zenon DEF ReloadBlocks
<1> HIDE DEF n, r
<1>4. BSIZE * n \in Nat /\ FSSIZE * r \in Nat
  BY <1>1, <1>2, <1>3
<1>5. RemSize = size % BSIZE
  BY <1>2, <1>4 DEF RemSize, n
<1>6. n < MaxBlock + 1
  <2>1. BSIZE * n < BSIZE * (MaxBlock + 1)
    BY <1>1, <1>2, <1>4
  <2> QED
    BY <1>1, <1>2, <2>1, CancelFactor
<1>7. r < n + 1
  <2>1. size < BSIZE * (n + 1)
    BY <1>1, <1>2, <1>4
  <2>2. BSIZE * (n + 1) <= FSSIZE * (n + 1)
    BY <1>1, <1>2
  <2>3. FSSIZE * r < FSSIZE * (n + 1)
    <3>1. BSIZE * (n + 1) \in Nat /\ FSSIZE * (n + 1) \in Nat
      BY <1>1, <1>2
    <3> QED
      BY <1>3, <1>4, <2>1, <2>2, <3>1
  <2> QED
    BY <1>1, <1>2, <1>3, <2>3, CancelFactor
<1> QED
  BY <1>1, <1>2, <1>3, <1>5, <1>6, <1>7 DEF n, r

\* A hart that has copied block b of the image past the headers finds it in memory.
Copied(b) == b >= HdrBlocks => mem[b - HdrBlocks] = image[b]

\* What the copying loops have done, on every hart.
LoadInv ==
    \A h \in Hart :
       /\ pc[h] = "measure" => \A b \in 0 .. blk[h] - 1 : Copied(b)
       /\ pc[h] \in {"compare", "load", "kernel"} => \A b \in 0 .. NumBlocks - 1 : Copied(b)

\* The state keeps its type, and what is copied stays there, on any number of harts.
LEMMA LoadStep ==
    ASSUME TypeOK, LoadInv, [Next]_vars PROVE TypeOK' /\ LoadInv'
<1> DEFINE E == Content \X (1 .. BSIZE)
<1>1. /\ NumBlocks \in 0 .. MaxBlock /\ RemSize \in 0 .. BSIZE - 1 /\ MaxBlock \in Nat
      /\ ReloadBlocks \in Nat /\ ReloadBlocks <= NumBlocks /\ BSIZE \in 1 .. BSIZE
  BY BlockCounts, BootAssumption DEF TypeOK
<1>2. \A b \in 0 .. MaxBlock : <<image[b], BSIZE>> \in E
  <2>1. \A b \in 0 .. MaxBlock : image[b] \in Content
    BY DEF TypeOK
  <2> QED
    BY <1>1, <2>1
<1>3. UNCHANGED <<size, image>>
  BY DEF Next, Step, StartHart, CopyPanics, Measure, MeasureRest, Compare, Load, JumpToKernel,
         Panic, vars
<1>4. NumBlocks' = NumBlocks
  BY <1>3 DEF NumBlocks
<1>5. CASE UNCHANGED vars
  BY <1>5 DEF vars, TypeOK, LoadInv, Copied, NumBlocks
<1>6. ASSUME NEW h \in Hart, StartHart(h) \/ CopyPanics(h) \/ JumpToKernel(h)
      PROVE  TypeOK' /\ LoadInv'
  <2>1. 0 \in 0 .. MaxBlock + 1 /\ <<>> \in Seq(E)
    BY <1>1
  <2>2. TypeOK'
    BY <1>6, <2>1, Zenon DEF StartHart, CopyPanics, JumpToKernel, Panic, TypeOK
  <2>3. LoadInv'
    <3>1. /\ UNCHANGED <<size, image, mem>>
          /\ \A g \in Hart : g # h => pc'[g] = pc[g] /\ blk'[g] = blk[g]
          /\ \/ pc'[h] = "measure" /\ blk'[h] = 0
             \/ pc'[h] = "panic"
             \/ pc[h] = "load" /\ pc'[h] = "kernel"
      BY <1>6 DEF StartHart, CopyPanics, JumpToKernel, Panic, TypeOK
    <3> QED
      BY <1>4, <3>1 DEF LoadInv, Copied
  <2> QED
    BY <2>2, <2>3
<1>7. ASSUME NEW h \in Hart, MeasureRest(h) PROVE TypeOK' /\ LoadInv'
  <2>1. ctx' \in Seq(E)
    <3>1. RemSize # 0 => <<image[NumBlocks], RemSize>> \in E
      BY <1>1 DEF TypeOK
    <3> HIDE DEF E
    <3>2. ctx \in Seq(E)
      BY DEF TypeOK, E
    <3> QED
      BY <1>7, <3>1, <3>2 DEF MeasureRest
  <2>2. TypeOK'
    BY <1>7, <2>1 DEF MeasureRest, TypeOK
  <2>3. LoadInv'
    <3>1. \A b \in 0 .. NumBlocks - 1 : Copied(b)
      BY <1>1, <1>7 DEF MeasureRest, LoadInv, TypeOK
    <3>2. /\ UNCHANGED <<size, image, mem, blk>>
          /\ \A g \in Hart : pc'[g] = IF g = h THEN "compare" ELSE pc[g]
      BY <1>7 DEF MeasureRest, TypeOK
    <3> QED
      BY <1>4, <3>1, <3>2 DEF LoadInv, Copied
  <2> QED
    BY <2>2, <2>3
<1>8. ASSUME NEW h \in Hart, Compare(h) PROVE TypeOK' /\ LoadInv'
  <2>1. 0 \in 0 .. MaxBlock + 1
    BY <1>1
  <2>2. TypeOK'
    BY <1>8, <2>1, Zenon DEF Compare, Panic, TypeOK
  <2>3. /\ UNCHANGED <<size, image, mem>>
        /\ \A g \in Hart : g # h => pc'[g] = pc[g] /\ blk'[g] = blk[g]
        /\ pc[h] = "compare" /\ pc'[h] \in {"load", "panic"}
    BY <1>8 DEF Compare, Panic, TypeOK
  <2>4. LoadInv'
    BY <1>4, <2>3, Zenon DEF LoadInv, Copied
  <2> QED
    BY <2>2, <2>4
<1>9. ASSUME NEW h \in Hart, Measure(h) \/ Load(h) PROVE TypeOK' /\ LoadInv'
  <2>0. /\ blk' = [blk EXCEPT ![h] = blk[h] + 1] /\ pc' = pc /\ observed' = observed
        /\ mem' = IF blk[h] < HdrBlocks THEN mem
                  ELSE [mem EXCEPT ![blk[h] - HdrBlocks] = image[blk[h]]]
        /\ blk[h] < NumBlocks \/ blk[h] < ReloadBlocks
        /\ ctx' = ctx \/ ctx' = Append(ctx, <<image[blk[h]], BSIZE>>)
    BY <1>9, Zenon DEF Measure, Load
  <2>b. blk[h] \in 0 .. MaxBlock + 1
    BY DEF TypeOK
  <2>1. /\ blk[h] \in 0 .. MaxBlock /\ blk[h] < NumBlocks
        /\ blk' = [blk EXCEPT ![h] = blk[h] + 1] /\ pc' = pc
        /\ mem' = IF blk[h] < HdrBlocks THEN mem
                  ELSE [mem EXCEPT ![blk[h] - HdrBlocks] = image[blk[h]]]
    <3>1. blk[h] \in 0 .. MaxBlock /\ blk[h] < NumBlocks
      BY <1>1, <2>0, <2>b
    <3> QED
      BY <2>0, <3>1, Zenon
  <2>2. ctx' \in Seq(E) /\ observed' = observed
    <3> DEFINE e == <<image[blk[h]], BSIZE>>
    <3>1. ctx \in Seq(E) /\ e \in E
      BY <1>2, <2>1 DEF TypeOK
    <3>2. ctx' = ctx \/ ctx' = Append(ctx, e)
      BY <2>0, Zenon
    <3> HIDE DEF E, e
    <3>3. Append(ctx, e) \in Seq(E)
      BY <3>1
    <3> QED
      BY <2>0, <3>1, <3>2, <3>3, Zenon
  <2>3. mem' \in [MemBlocks -> Content \cup {Zero}]
    BY <1>1, <2>1 DEF TypeOK, MemBlocks, HdrBlocks
  <2>4. TypeOK'
    BY <1>1, <1>3, <2>1, <2>2, <2>3 DEF TypeOK
  <2>5. \A b \in 0 .. MaxBlock : Copied(b) \/ b = blk[h] => Copied(b)'
    <3> SUFFICES ASSUME NEW b \in 0 .. MaxBlock, Copied(b) \/ b = blk[h], b >= HdrBlocks
                 PROVE  mem'[b - HdrBlocks] = image[b]
      BY <1>3, Zenon DEF Copied
    <3>1. b - HdrBlocks \in MemBlocks
      BY <1>1 DEF MemBlocks, HdrBlocks
    <3> QED
      BY <2>1, <3>1 DEF TypeOK, Copied, HdrBlocks
  <2>6. \A g \in Hart : blk[g] \in Nat /\ blk'[g] = IF g = h THEN blk[h] + 1 ELSE blk[g]
    BY <1>1, <2>1 DEF TypeOK
  <2>7. LoadInv'
    <3> SUFFICES ASSUME NEW g \in Hart
                 PROVE  /\ pc[g] = "measure" => \A b \in 0 .. blk'[g] - 1 : Copied(b)'
                        /\ pc[g] \in {"compare", "load", "kernel"} =>
                               \A b \in 0 .. NumBlocks - 1 : Copied(b)'
      BY <1>4, <2>1, Zenon DEF LoadInv
    <3>1. pc[g] \in {"compare", "load", "kernel"} => \A b \in 0 .. NumBlocks - 1 : Copied(b)'
      BY <1>1, <2>5 DEF LoadInv
    <3>2. ASSUME pc[g] = "measure", NEW b \in 0 .. blk'[g] - 1 PROVE Copied(b)'
      <4>1. b = blk[h] \/ b \in 0 .. blk[g] - 1
        BY <2>1, <2>6
      <4>2. b \in 0 .. MaxBlock
        <5>1. blk' \in [Hart -> 0 .. MaxBlock + 1]
          BY <2>4, Zenon DEF TypeOK
        <5>2. blk'[g] \in 0 .. MaxBlock + 1
          BY <5>1, Zenon
        <5> QED
          BY <1>1, <5>2
      <4> QED
        BY <2>5, <3>2, <4>1, <4>2 DEF LoadInv
    <3> QED
      BY <3>1, <3>2, Zenon
  <2> QED
    BY <2>4, <2>7
<1> QED
  BY <1>5, <1>6, <1>7, <1>8, <1>9 DEF Next, Step

\* The boot starts so.
LEMMA LoadInit == Init => TypeOK /\ LoadInv
<1>1. BootAssumption => 0 \in 0 .. MaxBlock + 1
  BY DEF BootAssumption
<1> QED
  BY <1>1, BootAssumption DEF Init, TypeOK, LoadInv

\* The loader never leaves its types on any number of harts: no loop of
\* is_secure_boot() or start() goes past the image, and what is hashed is at
\* most a block (start.c:70-110, 150-170).
THEOREM LoaderTypes == Spec => []TypeOK
  BY LoadInit, LoadStep, PTL DEF Spec

\* What was measured is what runs, on a one-hart machine and for a trusted
\* image that holds the kernel's whole segment: at the jump of start.c:178 each
\* block of it is in memory, although the loop of start() copies only
\* size / FSSIZE blocks (the measurement has copied them all).
THEOREM SecureBootLoads ==
    ASSUME NEW h \in Hart, Hart = {h}, SegBlocks + HdrBlocks <= TrustedSize \div BSIZE
    PROVE  Spec => []MeasuredIsLoaded
<1>1. TypeOK /\ LoadInv /\ MeasureInv(h) => MeasuredIsLoaded
  <2> SUFFICES ASSUME TypeOK, LoadInv, MeasureInv(h), pc[h] = "kernel",
                      NEW m \in 0 .. SegBlocks - 1
               PROVE  mem[m] = TrustedImage[m + HdrBlocks]
    BY DEF MeasuredIsLoaded
  <2> DEFINE b == m + HdrBlocks
  <2>1. Genuine
    BY DigestInjective DEF MeasureInv
  <2>2. b \in 0 .. NumBlocks - 1 /\ b >= HdrBlocks /\ b - HdrBlocks = m /\ NumBlocks \in Nat
    BY <2>1, BlockCounts, BootAssumption DEF Genuine, NumBlocks, HdrBlocks, TypeOK
  <2> HIDE DEF b
  <2>3. mem[m] = image[b]
    BY <2>2, Zenon DEF LoadInv, Copied
  <2>4. b * BSIZE < size
    <3>1. /\ size \in Nat /\ BSIZE \in Nat \ {0} /\ size % BSIZE \in Nat
          /\ size = BSIZE * NumBlocks + (size % BSIZE)
      BY BootAssumption, DivMod DEF TypeOK, NumBlocks
    <3>2. b * BSIZE < BSIZE * NumBlocks
      BY <2>2, <3>1
    <3>3. b * BSIZE \in Nat /\ BSIZE * NumBlocks \in Nat
      BY <2>2, <3>1
    <3> QED
      BY <3>1, <3>2, <3>3
  <2> QED
    BY <2>1, <2>2, <2>3, <2>4 DEF Genuine, b
<1>2. Init => MeasureInv(h)
  BY MeasureInit
<1>3. MeasureInv(h) /\ [Next]_vars => MeasureInv(h)'
  BY MeasureStep
<1> QED
  BY <1>1, <1>2, <1>3, LoadInit, LoadStep, PTL DEF Spec

-----------------------------------------------------------------------------
(* main() of the kernel, for any set of harts and whatever order memory shows
   the stores of hart 0 in. *)

\* What the first k calls of hart 0, or of another hart, have set up.
Done(k) == {Setup[i] : i \in 1 .. k}
OwnDone(k) == {OwnSetup[i] : i \in 1 .. k}

\* Where hart 0 is, and what it has stored by then.
BootInv ==
    /\ kpc[boot] \in {"setup", "fence", "store", "scheduler"}
    /\ kpc[boot] = "setup" =>
          /\ made[boot] \in 0 .. 14
          /\ visible \cup buffer = Done(made[boot]) \ Own /\ own[boot] = Done(made[boot]) \cap Own
    /\ kpc[boot] # "setup" => own[boot] = Own
    /\ kpc[boot] = "fence" => visible \cup buffer = Shared
    /\ kpc[boot] = "store" => visible = Shared /\ buffer = {}
    /\ kpc[boot] = "scheduler" => visible = Shared /\ buffer \subseteq {"started"}
    /\ started => kpc[boot] = "scheduler"

\* Where the others are: past the loop only after hart 0 is, with nothing loaded
\* ahead once they are through the fence.
OtherInv ==
    \A h \in CPU \ {boot} :
      /\ kpc[h] \in {"spin", "seen", "own", "scheduler"}
      /\ kpc[h] # "spin" => started
      /\ kpc[h] \in {"spin", "seen"} => made[h] = 0 /\ own[h] = {}
      /\ kpc[h] = "own" => ~stale[h] /\ made[h] \in 0 .. 3 /\ own[h] = OwnDone(made[h]) \cap Own
      /\ kpc[h] = "scheduler" => ~stale[h] /\ own[h] = Own

\* The inductive invariant.
StartInv == KernelTypeOK /\ BootInv /\ OtherInv

-----------------------------------------------------------------------------
\* The lists of calls, one by one (main.c:13-42).
LEMMA Lists ==
  /\ Len(Setup) = 15 /\ Len(OwnSetup) = 4
  /\ Setup[1] = "consoleinit" /\ Setup[2] = "printfinit" /\ Setup[3] = "kinit"
  /\ Setup[4] = "kvminit" /\ Setup[5] = "kvminithart" /\ Setup[6] = "procinit"
  /\ Setup[7] = "trapinit" /\ Setup[8] = "trapinithart" /\ Setup[9] = "plicinit"
  /\ Setup[10] = "plicinithart" /\ Setup[11] = "binit" /\ Setup[12] = "iinit"
  /\ Setup[13] = "fileinit" /\ Setup[14] = "virtio_disk_init" /\ Setup[15] = "userinit"
  /\ OwnSetup[1] = "printf" /\ OwnSetup[2] = "kvminithart"
  /\ OwnSetup[3] = "trapinithart" /\ OwnSetup[4] = "plicinithart"
BY DEF Setup, OwnSetup

\* Every call of hart 0 comes after the calls it needs (main.c:15-32).
LEMMA InOrder == \A k \in 0 .. 14 : Needs(Setup[k + 1]) \subseteq Done(k) \ Own
<1> SUFFICES ASSUME NEW k \in 0 .. 14 PROVE Needs(Setup[k + 1]) \subseteq Done(k) \ Own
  OBVIOUS
<1> DEFINE c == Setup[k + 1]
<1>1. k >= 3 => "kinit" \in Done(k) \ Own
  BY Lists DEF Done, Own
<1>2. k >= 4 => "kvminit" \in Done(k) \ Own
  BY Lists DEF Done, Own
<1>3. k >= 14 => "procinit" \in Done(k) \ Own /\ "iinit" \in Done(k) \ Own
  BY Lists DEF Done, Own
<1>4. c \in {"consoleinit", "printfinit", "kinit"} \/ k >= 3
  BY Lists
<1>5. c \in {"consoleinit", "printfinit", "kinit", "kvminit"} \/ k >= 4
  BY Lists
<1>6. c = "userinit" => k = 14
  BY Lists
<1>7. c # "printf"
  BY Lists
<1> QED
  <2> HIDE DEF c
  <2> SUFFICES Needs(c) \subseteq Done(k) \ Own
    BY DEF c
  <2> QED
    BY <1>1, <1>2, <1>3, <1>4, <1>5, <1>6, <1>7 DEF Needs

\* All calls but those a hart makes for itself are for everybody.
LEMMA AllCalls ==
  /\ Done(15) = Calls /\ Calls \cap Own = Own /\ OwnDone(4) \cap Own = Own
  /\ "started" \notin Shared
  /\ "consoleinit" \in Shared /\ "printfinit" \in Shared /\ "kvminit" \in Shared
<1>1. Done(15) = Calls
  BY Lists DEF Done, Calls
<1>2. {"kvminithart", "trapinithart", "plicinithart"} \subseteq OwnDone(4)
  BY Lists DEF OwnDone
<1>3. {"kvminithart", "trapinithart", "plicinithart", "consoleinit", "printfinit", "kvminit"}
         \subseteq Done(15)
  BY Lists DEF Done
<1>4. "started" \notin Done(15)
  BY Lists DEF Done
<1> QED
  BY <1>1, <1>2, <1>3, <1>4 DEF Own, Shared
-----------------------------------------------------------------------------
\* The initial state satisfies the invariant.
LEMMA StartInit == KernelInit => StartInv
<1> SUFFICES ASSUME KernelInit PROVE StartInv
  OBVIOUS
<1>1. KernelTypeOK
  <2>1. kpc \in [CPU -> Pc] /\ made \in [CPU -> 0 .. Len(Setup)]
    BY Lists DEF KernelInit, Pc
  <2>2. stale \in [CPU -> BOOLEAN] /\ started \in BOOLEAN
    BY Zenon DEF KernelInit
  <2>3. own \in [CPU -> SUBSET Own] /\ visible = {} /\ buffer = {}
    BY DEF KernelInit
  <2> QED
    BY <2>1, <2>2, <2>3 DEF KernelTypeOK
<1>2. Done(0) = {} /\ OwnDone(0) = {}
  BY DEF Done, OwnDone
<1>3. BootInv
  BY <1>2 DEF KernelInit, BootInv, CPU
<1>4. OtherInv
  BY DEF KernelInit, OtherInv, CPU
<1> QED
  BY <1>1, <1>3, <1>4 DEF StartInv

\* One more call of hart 0 keeps it.
LEMMA SetUpKeeps == StartInv /\ SetUp => StartInv'
<1> SUFFICES ASSUME StartInv, SetUp PROVE StartInv'
  OBVIOUS
<1> DEFINE k == made[boot]
           c == Setup[k + 1]
<1>0. boot \in CPU
  BY DEF CPU
<1>1. /\ kpc[boot] = "setup" /\ k \in 0 .. 14
      /\ made' = [made EXCEPT ![boot] = k + 1]
      /\ kpc' = [kpc EXCEPT ![boot] = IF k + 1 = 15 THEN "fence" ELSE "setup"]
      /\ UNCHANGED <<started, visible, stale>>
      /\ visible \cup buffer = Done(k) \ Own /\ own[boot] = Done(k) \cap Own
  BY Lists DEF StartInv, BootInv, SetUp
<1>2. Done(k + 1) = Done(k) \cup {c}
  <2>1. 1 .. k + 1 = (1 .. k) \cup {k + 1}
    BY <1>1
  <2> QED
    BY <2>1 DEF Done
<1>3. c \in Calls
  BY <1>1, Lists DEF Calls
<1>4. /\ visible' \cup buffer' = Done(k + 1) \ Own
      /\ own' \in [CPU -> SUBSET Own] /\ own'[boot] = Done(k + 1) \cap Own
      /\ \A h \in CPU \ {boot} : own'[h] = own[h]
      /\ buffer' \subseteq Shared \cup {"started"}
  <2>1. CASE c \in Own
    <3>1. buffer' = buffer /\ own' = [own EXCEPT ![boot] = own[boot] \cup {c}]
      BY <2>1 DEF SetUp
    <3>2. /\ buffer \subseteq Shared \cup {"started"} /\ own \in [CPU -> SUBSET Own]
          /\ visible' = visible
      BY <1>1 DEF StartInv, KernelTypeOK
    <3> HIDE DEF c, k
    <3>3. own' \in [CPU -> SUBSET Own] /\ own'[boot] = own[boot] \cup {c}
      BY <1>0, <2>1, <3>1, <3>2
    <3>4. visible' \cup buffer' = Done(k + 1) \ Own /\ own'[boot] = Done(k + 1) \cap Own
      BY <2>1, <1>1, <1>2, <3>1, <3>2, <3>3
    <3> QED
      BY <1>0, <3>1, <3>2, <3>3, <3>4
  <2>2. CASE c \notin Own
    <3>1. own' = own /\ buffer' = buffer \cup {c} /\ c \in Shared
      BY <2>2, <1>3 DEF SetUp, Shared
    <3>2. /\ buffer \subseteq Shared \cup {"started"} /\ own \in [CPU -> SUBSET Own]
          /\ visible' = visible
      BY <1>1 DEF StartInv, KernelTypeOK
    <3> HIDE DEF c, k
    <3>3. visible' \cup buffer' = Done(k + 1) \ Own /\ own'[boot] = Done(k + 1) \cap Own
      BY <2>2, <1>1, <1>2, <3>1, <3>2
    <3> QED
      BY <3>1, <3>2, <3>3
  <2> QED
    BY <2>1, <2>2
<1>5. KernelTypeOK'
  <2>1. kpc' \in [CPU -> Pc] /\ made' \in [CPU -> 0 .. Len(Setup)]
    BY <1>0, <1>1, Lists DEF StartInv, KernelTypeOK, Pc
  <2> QED
    BY <1>1, <1>4, <2>1 DEF StartInv, KernelTypeOK
<1>6. BootInv'
  <2>1. made'[boot] = k + 1 /\ kpc'[boot] = IF k + 1 = 15 THEN "fence" ELSE "setup"
    BY <1>0, <1>1 DEF StartInv, KernelTypeOK
  <2>2. ~started
    BY <1>1 DEF StartInv, BootInv
  <2>3. k + 1 = 15 => Done(k + 1) \ Own = Shared /\ Done(k + 1) \cap Own = Own
    BY AllCalls DEF Shared
  <2> HIDE DEF k, c
  <2> QED
    BY <1>1, <1>4, <2>1, <2>2, <2>3 DEF BootInv
<1>7. OtherInv'
  <2>1. \A h \in CPU \ {boot} : kpc'[h] = kpc[h] /\ made'[h] = made[h] /\ own'[h] = own[h]
    BY <1>0, <1>1, <1>4 DEF StartInv, KernelTypeOK
  <2> QED
    BY <1>1, <2>1 DEF StartInv, OtherInv
<1> QED
  BY <1>5, <1>6, <1>7 DEF StartInv

\* A store that becomes visible keeps it.
LEMMA DrainKeeps == StartInv /\ Drain => StartInv'
<1> SUFFICES ASSUME StartInv, Drain PROVE StartInv'
  OBVIOUS
<1>1. PICK c \in buffer :
         /\ buffer' = buffer \ {c}
         /\ IF c = "started" THEN started' = TRUE /\ UNCHANGED visible
            ELSE visible' = visible \cup {c} /\ UNCHANGED started
  BY DEF Drain
<1>2. UNCHANGED <<kpc, made, stale, own>>
  BY DEF Drain
<1>3. KernelTypeOK'
  BY <1>1, <1>2, Zenon DEF StartInv, KernelTypeOK
<1>4. "started" \notin Done(made[boot]) \/ kpc[boot] # "setup"
  <2>1. kpc[boot] = "setup" => \A i \in 1 .. made[boot] : Setup[i] # "started"
    BY Lists DEF StartInv, BootInv
  <2> QED
    BY <2>1 DEF Done
<1>5. c = "started" => kpc[boot] = "scheduler"
  BY <1>1, <1>4, AllCalls DEF StartInv, BootInv
<1>6. BootInv'
  BY <1>1, <1>2, <1>5 DEF StartInv, BootInv
<1>7. OtherInv'
  BY <1>1, <1>2 DEF StartInv, OtherInv
<1> QED
  BY <1>3, <1>6, <1>7 DEF StartInv

\* The fence and the store of started keep it.
LEMMA HandOverKeeps == StartInv /\ (Fence \/ StoreStarted) => StartInv'
<1> SUFFICES ASSUME StartInv, Fence \/ StoreStarted PROVE StartInv'
  OBVIOUS
<1>0. boot \in CPU
  BY DEF CPU
<1>1. UNCHANGED <<made, started, visible, stale, own>>
  BY DEF Fence, StoreStarted
<1>2. /\ kpc' \in [CPU -> Pc] /\ \A h \in CPU \ {boot} : kpc'[h] = kpc[h]
      /\ kpc'[boot] = IF Fence THEN "store" ELSE "scheduler"
  BY <1>0, Zenon DEF Fence, StoreStarted, StartInv, KernelTypeOK, Pc
<1>3. buffer' \subseteq Shared \cup {"started"}
  BY DEF Fence, StoreStarted, StartInv, KernelTypeOK
<1>4. KernelTypeOK'
  BY <1>1, <1>2, <1>3 DEF StartInv, KernelTypeOK
<1>5. BootInv'
  <2>1. CASE Fence
    BY <2>1, <1>1, <1>2 DEF Fence, StartInv, BootInv
  <2>2. CASE ~Fence /\ StoreStarted
    BY <2>2, <1>1, <1>2 DEF StoreStarted, StartInv, BootInv
  <2> QED
    BY <2>1, <2>2, Zenon
<1>6. OtherInv'
  BY <1>1, <1>2, Zenon DEF StartInv, OtherInv
<1> QED
  BY <1>4, <1>5, <1>6 DEF StartInv

\* Every step of another hart keeps it.
LEMMA OtherKeeps ==
  ASSUME NEW h \in CPU \ {boot}, StartInv,
         LoadAhead(h) \/ SeeStarted(h) \/ SeenFence(h) \/ SetUpOwn(h)
  PROVE  StartInv'
<1>1. /\ UNCHANGED <<started, visible, buffer>>
      /\ \A g \in CPU \ {h} : /\ kpc'[g] = kpc[g] /\ made'[g] = made[g]
                              /\ stale'[g] = stale[g] /\ own'[g] = own[g]
      /\ boot \in CPU \ {h} /\ h \in CPU
  BY DEF LoadAhead, SeeStarted, SeenFence, SetUpOwn, StartInv, KernelTypeOK, CPU
<1>2. BootInv'
  BY <1>1 DEF StartInv, BootInv
<1>3. ASSUME KernelTypeOK',
             /\ kpc'[h] \in {"spin", "seen", "own", "scheduler"}
             /\ kpc'[h] # "spin" => started
             /\ kpc'[h] \in {"spin", "seen"} => made'[h] = 0 /\ own'[h] = {}
             /\ kpc'[h] = "own" => ~stale'[h] /\ made'[h] \in 0 .. 3 /\ own'[h] = OwnDone(made'[h]) \cap Own
             /\ kpc'[h] = "scheduler" => ~stale'[h] /\ own'[h] = Own
      PROVE  StartInv'
  BY <1>1, <1>2, <1>3, Zenon DEF StartInv, OtherInv
<1>4. CASE LoadAhead(h)
  <2>1. KernelTypeOK'
    BY <1>1, <1>4, Zenon DEF LoadAhead, StartInv, KernelTypeOK
  <2> QED
    BY <1>1, <1>3, <1>4, <2>1, Zenon DEF LoadAhead, StartInv, OtherInv
<1>5. CASE SeeStarted(h)
  <2>1. KernelTypeOK' /\ kpc'[h] = "seen"
    BY <1>1, <1>5 DEF SeeStarted, StartInv, KernelTypeOK, Pc
  <2>2. /\ started /\ UNCHANGED <<made, stale, own>> /\ made[h] = 0 /\ own[h] = {}
    BY <1>5, Zenon DEF SeeStarted, StartInv, OtherInv
  <2> QED
    BY <1>3, <2>1, <2>2
<1>6. CASE SeenFence(h)
  <2>1. KernelTypeOK' /\ kpc'[h] = "own" /\ ~stale'[h]
    BY <1>1, <1>6 DEF SeenFence, StartInv, KernelTypeOK, Pc
  <2>2. OwnDone(0) = {}
    BY DEF OwnDone
  <2>3. /\ started /\ UNCHANGED <<made, own>> /\ made[h] = 0 /\ own[h] = {}
    BY <1>6, Zenon DEF SeenFence, StartInv, OtherInv
  <2>4. made'[h] = 0 /\ own'[h] = OwnDone(0) \cap Own /\ 0 \in 0 .. 3
    BY <2>2, <2>3
  <2> QED
    BY <1>3, <2>1, <2>3, <2>4, Zenon
<1>7. CASE SetUpOwn(h)
  <2> DEFINE k == made[h]
  <2>1. /\ kpc[h] = "own" /\ k \in 0 .. 3 /\ started /\ ~stale[h] /\ own[h] = OwnDone(k) \cap Own
    BY <1>7 DEF SetUpOwn, StartInv, OtherInv
  <2>2. OwnDone(k + 1) = OwnDone(k) \cup {OwnSetup[k + 1]}
    <3>1. 1 .. k + 1 = (1 .. k) \cup {k + 1}
      BY <2>1
    <3> QED
      BY <3>1, Zenon DEF OwnDone
  <2>3. /\ made' = [made EXCEPT ![h] = k + 1] /\ own' = [own EXCEPT ![h] = OwnDone(k + 1) \cap Own]
        /\ kpc' = [kpc EXCEPT ![h] = IF k + 1 = 4 THEN "scheduler" ELSE "own"]
        /\ stale' = stale
    <3>1. own[h] \cup ({OwnSetup[k + 1]} \cap Own) = OwnDone(k + 1) \cap Own
      BY <2>1, <2>2
    <3> QED
      BY <1>7, <3>1, Lists, Zenon DEF SetUpOwn
  <2>4. KernelTypeOK'
    BY <1>1, <2>1, <2>3, Lists DEF StartInv, KernelTypeOK, Pc
  <2>5. /\ made'[h] = k + 1 /\ own'[h] = OwnDone(k + 1) \cap Own /\ ~stale'[h]
        /\ kpc'[h] = IF k + 1 = 4 THEN "scheduler" ELSE "own"
    BY <1>1, <2>1, <2>3 DEF StartInv, KernelTypeOK
  <2>6. k + 1 = 4 => own'[h] = Own
    BY <2>5, AllCalls
  <2>7. k + 1 # 4 => k + 1 \in 0 .. 3
    BY <2>1
  <2> HIDE DEF k
  <2> QED
    BY <1>3, <2>1, <2>4, <2>5, <2>6, <2>7, Zenon
<1> QED
  BY <1>4, <1>5, <1>6, <1>7

\* The invariant says what is to be shown.
LEMMA StartInvMeansReady == StartInv => StartedMeansReady
<1> SUFFICES ASSUME StartInv PROVE StartedMeansReady
  OBVIOUS
<1>1. kpc[boot] = "setup" => Needs(Setup[made[boot] + 1]) \subseteq Sees(boot)
  BY InOrder DEF StartInv, BootInv, Sees
<1>2. ASSUME NEW h \in CPU \ {boot}, kpc[h] \in {"own", "scheduler"} PROVE Sees(h) = Shared
  BY <1>2 DEF StartInv, BootInv, OtherInv, Sees
<1>3. ASSUME NEW h \in CPU \ {boot}, kpc[h] = "own" PROVE Needs(OwnSetup[made[h] + 1]) \subseteq Sees(h)
  <2>1. OwnSetup[made[h] + 1] \in {"printf", "kvminithart", "trapinithart", "plicinithart"}
    BY <1>3, Lists DEF StartInv, OtherInv
  <2> QED
    BY <1>2, <1>3, <2>1, AllCalls DEF Needs
<1>4. ASSUME NEW h \in CPU, kpc[h] = "scheduler" PROVE NeedsScheduler \subseteq Sees(h) /\ own[h] = Own
  <2>1. CASE h = boot
    BY <1>4, <2>1 DEF StartInv, BootInv, Sees, NeedsScheduler
  <2>2. CASE h # boot
    BY <1>2, <1>4, <2>2 DEF StartInv, OtherInv, NeedsScheduler
  <2> QED
    BY <2>1, <2>2
<1> QED
  BY <1>1, <1>3, <1>4, Zenon DEF StartedMeansReady, StartInv

\* For any set of harts, every call and every hart that schedules finds what it
\* uses set up and visible, whatever order stores become visible in and whatever
\* is loaded ahead: the two fences around started are enough (main.c:13-45).
THEOREM KernelStartsReady == KernelSafety => []StartedMeansReady
<1>1. StartInv /\ [KernelNext]_kernelvars => StartInv'
  <2> SUFFICES ASSUME StartInv, [KernelNext]_kernelvars PROVE StartInv'
    OBVIOUS
  <2>1. CASE UNCHANGED kernelvars
    BY <2>1 DEF kernelvars, StartInv, KernelTypeOK, BootInv, OtherInv
  <2> QED
    BY <2>1, SetUpKeeps, DrainKeeps, HandOverKeeps, OtherKeeps DEF KernelNext
<1> QED
  BY StartInit, StartInvMeansReady, <1>1, PTL DEF KernelSafety
=============================================================================
