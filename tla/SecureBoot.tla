----------------------------- MODULE SecureBoot -----------------------------
(***************************************************************************)
(* The bootloader (bootloader/start.c, elf.c, load.c): every hart measures *)
(* the NORMAL kernel image block by block with SHA-256, copies the blocks  *)
(* to the load address as it goes, compares the digest with the trusted    *)
(* one, copies again what it takes to be the whole image, and jumps.       *)
(*                                                                         *)
(* A file block is one opaque value of Content, the digest of a file is    *)
(* the sequence of what sha256_update was given (SHA-256 without           *)
(* collisions), and memory is counted in blocks from the load address.     *)
(* sha256_ctx, the system information table and memory are shared by the   *)
(* harts, as the globals of start.c are.                                   *)
(***************************************************************************)
EXTENDS Integers, Sequences

CONSTANTS Hart,         \* the harts that run the bootloader (Makefile: CPUS)
          BSIZE,        \* bytes of a block
          FSSIZE,       \* the bound kernel_copy puts on block numbers
          Content,      \* what a block of an image can hold
          Zero,         \* the content of a zeroed memory block
          Sizes,        \* image sizes found in the headers, in bytes
          MaxBlock,     \* the last block of the RAM disk that is looked at
          TrustedSize, TrustedImage,   \* the file behind trusted_kernel_hash
          SegBlocks,    \* file-backed blocks of the kernel's load segment
          BssBlocks     \* blocks of the segment beyond its file size (.bss)

ASSUME BootAssumption ==
    /\ BSIZE \in Nat \ {0} /\ FSSIZE \in Nat /\ FSSIZE >= BSIZE
    /\ MaxBlock \in Nat
    /\ Sizes \subseteq 0 .. (MaxBlock + 1) * BSIZE - 1
    /\ TrustedSize \in Sizes
    /\ TrustedImage \in [0 .. MaxBlock -> Content]
    /\ Zero \notin Content
    /\ SegBlocks \in Nat /\ BssBlocks \in Nat

HdrBlocks == 4          \* "ignoring the first 4 (4*1024) blocks"

VARIABLES size,         \* find_kernel_size(NORMAL)
          image,        \* the NORMAL image at RAMDISK, by block number
          ctx,          \* sha256_ctx: the data absorbed so far
          observed,     \* sys_info_ptr->observed_kernel_measurement
          mem,          \* memory from kernel_load_addr on, by block
          pc, blk       \* per hart: where it is, and its loop variable i

vars == <<size, image, ctx, observed, mem, pc, blk>>

NumBlocks == size \div BSIZE
RemSize == size - BSIZE * NumBlocks
\* start() divides by FSSIZE where is_secure_boot() divides by BSIZE.
ReloadBlocks == size \div FSSIZE

\* What hashing a file of the given size and blocks absorbs.
Digest(sz, img) ==
    LET n == sz \div BSIZE
        full == [j \in 1 .. n |-> <<img[j - 1], BSIZE>>]
    IN  IF sz % BSIZE = 0 THEN full ELSE Append(full, <<img[n], sz % BSIZE>>)

TrustedHash == Digest(TrustedSize, TrustedImage)

MemBlocks == 0 .. MaxBlock

TypeOK ==
    /\ size \in Sizes
    /\ image \in [0 .. MaxBlock -> Content]
    /\ ctx \in Seq(Content \X (1 .. BSIZE))
    /\ observed \in Seq(Content \X (1 .. BSIZE))
    /\ mem \in [MemBlocks -> Content \cup {Zero}]
    /\ pc \in [Hart -> {"entry", "measure", "compare", "load", "kernel", "panic"}]
    /\ blk \in [Hart -> 0 .. MaxBlock + 1]

Init ==
    /\ size \in Sizes
    /\ image \in [0 .. MaxBlock -> Content]
    /\ ctx = <<>> /\ observed = <<>>
    /\ mem = [m \in MemBlocks |-> Zero]
    /\ pc = [h \in Hart |-> "entry"]
    /\ blk = [h \in Hart |-> 0]

\* panic() of the bootloader is an endless loop.
Panic(h) ==
    /\ pc' = [pc EXCEPT ![h] = "panic"]
    /\ UNCHANGED <<size, image, ctx, observed, mem, blk>>

\* _entry sets up the stack and calls start(), which calls is_secure_boot(),
\* which starts with sha256_init.
StartHart(h) ==
    /\ pc[h] = "entry"
    /\ ctx' = <<>>
    /\ blk' = [blk EXCEPT ![h] = 0]
    /\ pc' = [pc EXCEPT ![h] = "measure"]
    /\ UNCHANGED <<size, image, observed, mem>>

\* kernel_copy refuses the block number.
CopyPanics(h) ==
    /\ pc[h] = "measure" /\ blk[h] >= FSSIZE
    /\ Panic(h)

MeasureWithoutCopy(h) ==                                      \* mutant
    /\ pc[h] = "measure" /\ blk[h] < NumBlocks /\ blk[h] < FSSIZE
    /\ ctx' = Append(ctx, <<image[blk[h]], BSIZE>>)
    /\ blk' = [blk EXCEPT ![h] = @ + 1]
    /\ UNCHANGED <<size, image, observed, mem, pc>>

\* One whole block: copied past the headers, and hashed.
Measure(h) ==
    /\ pc[h] = "measure" /\ blk[h] < NumBlocks /\ blk[h] < FSSIZE
    /\ mem' = IF blk[h] < HdrBlocks THEN mem
              ELSE [mem EXCEPT ![blk[h] - HdrBlocks] = image[blk[h]]]
    /\ ctx' = Append(ctx, <<image[blk[h]], BSIZE>>)
    /\ blk' = [blk EXCEPT ![h] = @ + 1]
    /\ UNCHANGED <<size, image, observed, pc>>

MeasureRestSkipped(h) ==                                      \* mutant
    /\ pc[h] = "measure" /\ blk[h] >= NumBlocks /\ blk[h] < FSSIZE
    /\ observed' = ctx
    /\ pc' = [pc EXCEPT ![h] = "compare"]
    /\ UNCHANGED <<size, image, ctx, mem, blk>>

\* The remainder of the file, hashed only, and sha256_final.
MeasureRest(h) ==
    /\ pc[h] = "measure" /\ blk[h] >= NumBlocks /\ blk[h] < FSSIZE
    /\ ctx' = IF RemSize = 0 THEN ctx
              ELSE Append(ctx, <<image[NumBlocks], RemSize>>)
    /\ observed' = ctx'
    /\ pc' = [pc EXCEPT ![h] = "compare"]
    /\ UNCHANGED <<size, image, mem, blk>>

ComparePrefix(h) ==                                           \* mutant
    /\ pc[h] = "compare"
    /\ \/ SubSeq(observed, 1, 4) = SubSeq(TrustedHash, 1, 4)
          /\ pc' = [pc EXCEPT ![h] = "load"]
          /\ blk' = [blk EXCEPT ![h] = 0]
          /\ UNCHANGED <<size, image, ctx, observed, mem>>
       \/ SubSeq(observed, 1, 4) # SubSeq(TrustedHash, 1, 4) /\ Panic(h)

\* memcmp with the trusted hash.  When it differs is_secure_boot() is false,
\* start() returns to entry.S, where nothing follows the jal but panic().
Compare(h) ==
    /\ pc[h] = "compare"
    /\ \/ observed = TrustedHash
          /\ pc' = [pc EXCEPT ![h] = "load"]
          /\ blk' = [blk EXCEPT ![h] = 0]
          /\ UNCHANGED <<size, image, ctx, observed, mem>>
       \/ observed # TrustedHash /\ Panic(h)

LoadPastEnd(h) ==                                             \* mutant
    /\ pc[h] = "load" /\ blk[h] <= MaxBlock + 1
    /\ blk' = [blk EXCEPT ![h] = @ + 1]
    /\ UNCHANGED <<size, image, ctx, observed, mem, pc>>

\* start() copies the image a second time.  Every block number it uses was
\* already accepted by kernel_copy during the measurement.
Load(h) ==
    /\ pc[h] = "load" /\ blk[h] < ReloadBlocks
    /\ mem' = IF blk[h] < HdrBlocks THEN mem
              ELSE [mem EXCEPT ![blk[h] - HdrBlocks] = image[blk[h]]]
    /\ blk' = [blk EXCEPT ![h] = @ + 1]
    /\ UNCHANGED <<size, image, ctx, observed, pc>>

\* The system information table is filled in and the hart jumps to the entry
\* point found in the NORMAL image's header.
JumpToKernel(h) ==
    /\ pc[h] = "load" /\ blk[h] >= ReloadBlocks
    /\ pc' = [pc EXCEPT ![h] = "kernel"]
    /\ UNCHANGED <<size, image, ctx, observed, mem, blk>>

Step(h) ==
    \/ StartHart(h) \/ CopyPanics(h) \/ Measure(h) \/ MeasureRest(h)
    \/ Compare(h) \/ Load(h) \/ JumpToKernel(h)

Next == \E h \in Hart : Step(h)

\* A hart never stops executing before it is in panic()'s loop or the kernel.
Spec == Init /\ [][Next]_vars /\ \A h \in Hart : WF_vars(Step(h))
-----------------------------------------------------------------------------
\* The image at RAMDISK is the file trusted_kernel_hash was computed from.
Genuine ==
    /\ size = TrustedSize
    /\ \A b \in 0 .. NumBlocks : b * BSIZE < size => image[b] = TrustedImage[b]

Fits == NumBlocks < FSSIZE

\* Only the trusted kernel runs: a hart that went past is_secure_boot()
\* (start.c:128) has the trusted image on the RAM disk, to the last byte the
\* headers count.
VerifiedBoot ==
    \A h \in Hart : pc[h] \in {"load", "kernel"} => Genuine

\* What was measured is what is executed: at the jump of start.c:178 every
\* file-backed block of the kernel's segment is in memory, although the copy
\* loop of start() stops short.
MeasuredIsLoaded ==
    \A h \in Hart : pc[h] = "kernel" =>
        \A m \in 0 .. SegBlocks - 1 : mem[m] = TrustedImage[m + HdrBlocks]

\* Every hart ends in the kernel when the image is genuine and not too large
\* for kernel_copy, and in panic()'s loop otherwise: no image is left half
\* checked.
EveryHartDecides ==
    \A h \in Hart : <>[](pc[h] = IF Genuine /\ Fits THEN "kernel" ELSE "panic")

\* main.c:9 has every CPU reach main(): a hart does not reject the trusted
\* image.
GenuineNeverRejected ==
    \A h \in Hart : pc[h] = "panic" => ~Genuine \/ ~Fits

\* start.c:43: when the hash verification fails the recovery kernel is booted,
\* so a failed comparison does not leave the hart in panic().
MismatchBootsRecovery ==
    \A h \in Hart : pc[h] = "panic" => ~Fits

\* main.c:7 "volatile static int started = 0": at the entry of the kernel the
\* part of its segment that the file does not back (.bss) is zero.
BssIsZero ==
    \A h \in Hart : pc[h] = "kernel" =>
        \A m \in SegBlocks .. SegBlocks + BssBlocks - 1 : mem[m] = Zero
=============================================================================
