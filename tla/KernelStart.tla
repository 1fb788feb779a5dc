---------------------------- MODULE KernelStart ----------------------------
(***************************************************************************)
(* main() of the kernel on every hart (kernel/main.c, start.c).  Hart 0    *)
(* sets everything up and then sets started; the others spin on it, go     *)
(* through a fence and set up their own part.                              *)
(*                                                                         *)
(* Memory is as weak as RVWMO allows.  What a hart stores waits in its     *)
(* store buffer and becomes visible in any order, and a hart may load      *)
(* ahead what it needs later.  __sync_synchronize() empties the buffer and *)
(* throws away what was loaded ahead.                                      *)
(***************************************************************************)
EXTENDS Naturals, Sequences

CONSTANTS Other,        \* the harts whose cpuid() is not 0
          boot          \* the one whose cpuid() is 0

CPU == Other \cup {boot}

\* The calls main() makes on hart 0, in order.
Setup == <<"consoleinit", "printfinit", "kinit", "kvminit", "kvminithart", "procinit",
           "trapinit", "trapinithart", "plicinit", "plicinithart", "binit", "iinit",
           "fileinit", "virtio_disk_init", "userinit">>

\* ... and those every hart makes for itself.
Own == {"kvminithart", "trapinithart", "plicinithart"}
OwnSetup == <<"printf", "kvminithart", "trapinithart", "plicinithart">>

Calls == {Setup[i] : i \in 1 .. Len(Setup)}
Shared == Calls \ Own

\* What a call uses of what others have set up: kvminit() maps pages of kalloc();
\* kvminithart() loads kernel_pagetable; procinit() has nothing but its locks;
\* the devices are reached through the kernel's page table; virtio_disk_init()
\* and userinit() take pages, and userinit() a slot and, for the root
\* directory, an entry of the inode table.  printf() takes pr.lock and writes
\* to the UART; hart 0 prints first, when pr.locking is still 0.
Needs(c) ==
    CASE c = "kvminit" -> {"kinit"}
      [] c = "kvminithart" -> {"kvminit"}
      [] c \in {"plicinit", "plicinithart"} -> {"kvminit"}
      [] c = "virtio_disk_init" -> {"kinit", "kvminit"}
      [] c = "userinit" -> {"kinit", "procinit", "iinit"}
      [] c = "printf" -> {"consoleinit", "printfinit"}
      [] OTHER -> {}

\* scheduler() runs processes, which use all of it.
NeedsScheduler == Shared

VARIABLES kpc,          \* per hart: where it is in main()
          made,         \* per hart: the calls it has made of its list
          started,      \* the value of started in memory
          visible,      \* the calls whose stores are in memory
          buffer,       \* what hart 0 has stored and is not in memory yet
          stale,        \* per hart: it has loaded ahead what was not stored yet
          own           \* per hart: the calls it has made for itself

kernelvars == <<kpc, made, started, visible, buffer, stale, own>>

Pc == {"setup", "fence", "store", "spin", "seen", "own", "scheduler"}

KernelTypeOK ==
    /\ kpc \in [CPU -> Pc]
    /\ made \in [CPU -> 0 .. Len(Setup)]
    /\ started \in BOOLEAN
    /\ visible \subseteq Shared /\ buffer \subseteq Shared \cup {"started"}
    /\ stale \in [CPU -> BOOLEAN]
    /\ own \in [CPU -> SUBSET Own]

\* The bootloader has loaded the kernel, whose static variables are 0.
KernelInit ==
    /\ kpc = [h \in CPU |-> IF h = boot THEN "setup" ELSE "spin"]
    /\ made = [h \in CPU |-> 0]
    /\ started = FALSE /\ visible = {} /\ buffer = {}
    /\ stale = [h \in CPU |-> FALSE] /\ own = [h \in CPU |-> {}]

-----------------------------------------------------------------------------
\* One call of hart 0.
SetUp ==
    LET c == Setup[made[boot] + 1] IN
    /\ kpc[boot] = "setup" /\ made[boot] < Len(Setup)
    /\ made' = [made EXCEPT ![boot] = @ + 1]
    /\ IF c \in Own THEN own' = [own EXCEPT ![boot] = @ \cup {c}] /\ UNCHANGED buffer
       ELSE buffer' = buffer \cup {c} /\ UNCHANGED own
    /\ kpc' = [kpc EXCEPT ![boot] = IF made[boot] + 1 = Len(Setup) THEN "fence" ELSE "setup"]
    /\ UNCHANGED <<started, visible, stale>>

\* Something hart 0 has stored becomes visible to the others.
Drain ==
    /\ \E c \in buffer :
          /\ buffer' = buffer \ {c}
          /\ IF c = "started" THEN started' = TRUE /\ UNCHANGED visible
             ELSE visible' = visible \cup {c} /\ UNCHANGED started
    /\ UNCHANGED <<kpc, made, stale, own>>

FenceSkipped ==                                                 \* mutant
    /\ kpc[boot] = "fence"
    /\ kpc' = [kpc EXCEPT ![boot] = "store"]
    /\ UNCHANGED <<made, started, visible, buffer, stale, own>>

\* __sync_synchronize() of hart 0.
Fence ==
    /\ kpc[boot] = "fence" /\ buffer = {}
    /\ kpc' = [kpc EXCEPT ![boot] = "store"]
    /\ UNCHANGED <<made, started, visible, buffer, stale, own>>

\* started = 1
StoreStarted ==
    /\ kpc[boot] = "store"
    /\ buffer' = buffer \cup {"started"}
    /\ kpc' = [kpc EXCEPT ![boot] = "scheduler"]
    /\ UNCHANGED <<made, started, visible, stale, own>>

\* A hart that spins loads ahead something it will need, and gets an old value.
\* In the end it needs everything, so that it does not matter what.
LoadAhead(h) ==
    /\ kpc[h] \in {"spin", "seen"} /\ Shared \ visible # {}
    /\ stale' = [stale EXCEPT ![h] = TRUE]
    /\ UNCHANGED <<kpc, made, started, visible, buffer, own>>

\* while(started == 0)
SeeStarted(h) ==
    /\ kpc[h] = "spin" /\ started
    /\ kpc' = [kpc EXCEPT ![h] = "seen"]
    /\ UNCHANGED <<made, started, visible, buffer, stale, own>>

\* __sync_synchronize() of the others.
SeenFence(h) ==
    /\ kpc[h] = "seen"
    /\ stale' = [stale EXCEPT ![h] = FALSE]
    /\ kpc' = [kpc EXCEPT ![h] = "own"]
    /\ UNCHANGED <<made, started, visible, buffer, own>>

\* One of the calls of another hart for itself.
SetUpOwn(h) ==
    /\ kpc[h] = "own" /\ made[h] < Len(OwnSetup)
    /\ own' = [own EXCEPT ![h] = @ \cup ({OwnSetup[made[h] + 1]} \cap Own)]
    /\ made' = [made EXCEPT ![h] = @ + 1]
    /\ kpc' = [kpc EXCEPT ![h] = IF made[h] + 1 = Len(OwnSetup) THEN "scheduler" ELSE "own"]
    /\ UNCHANGED <<started, visible, buffer, stale>>

KernelNext ==
    \/ SetUp \/ Drain \/ Fence \/ StoreStarted
    \/ \E h \in CPU \ {boot} : LoadAhead(h) \/ SeeStarted(h) \/ SeenFence(h) \/ SetUpOwn(h)

KernelSafety == KernelInit /\ [][KernelNext]_kernelvars

-----------------------------------------------------------------------------
\* What hart h sees set up: hart 0 sees its own stores, and who works with an
\* old value sees nothing for sure.
Sees(h) == IF h = boot THEN visible \cup buffer ELSE IF stale[h] THEN {} ELSE visible

\* Every call finds what it uses set up, on whatever hart it runs, and a hart
\* in scheduler() sees all that hart 0 has set up, with its own paging, trap
\* vector and interrupts: started is seen only after everything it stands for
\* (main.c:13-45).
StartedMeansReady ==
    /\ KernelTypeOK
    /\ kpc[boot] = "setup" => Needs(Setup[made[boot] + 1]) \subseteq Sees(boot)
    /\ \A h \in CPU \ {boot} : kpc[h] = "own" => Needs(OwnSetup[made[h] + 1]) \subseteq Sees(h)
    /\ \A h \in CPU : kpc[h] = "scheduler" => NeedsScheduler \subseteq Sees(h) /\ own[h] = Own
=============================================================================
