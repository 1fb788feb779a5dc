------------------------------- MODULE MCBoot -------------------------------
(***************************************************************************)
(* Small instances of three parts that share no state: the bootloader,     *)
(* with images of up to eight blocks of six bytes (four header blocks, two *)
(* blocks of program, and a remainder), main() of the kernel, and the      *)
(* clock that hart 0 drives from then on.  A behaviour is one of a single  *)
(* part, chosen at the start, and the others keep an initial state: what   *)
(* the bootloader hands over is the kernel in memory, which                *)
(* MeasuredIsLoaded is about.                                              *)
(***************************************************************************)
EXTENDS SecureBoot, KernelStart, Clock

VARIABLE part

\* As in the build, FSSIZE lies between BSIZE and twice BSIZE, and the image
\* has fewer than FSSIZE blocks.  25 ends in the first program block, 36 has
\* no remainder, 44 has a block kernel_copy refuses.
MCSizes == {25, 36, 39, 44}
MCTrusted == [b \in 0 .. 7 |-> "good"]
MCArgs == <<{2}, {0, 1}>>

MCInit ==
    /\ part \in {"loader", "kernel", "clock"}
    /\ Init /\ KernelInit /\ ClockInit
    /\ part # "loader" => Genuine /\ image = TrustedImage
    /\ part # "clock" => ticks = 0

MCNext ==
    \/ part = "loader" /\ Next /\ UNCHANGED <<kernelvars, clockvars, part>>
    \/ part = "kernel" /\ KernelNext /\ UNCHANGED <<vars, clockvars, part>>
    \/ part = "clock" /\ ClockNext /\ UNCHANGED <<vars, kernelvars, part>>

\* The fairness of SecureBoot and of Clock, each for its part.
MCSpec ==
    /\ MCInit /\ [][MCNext]_<<vars, kernelvars, clockvars, part>>
    /\ \A h \in Hart : WF_vars(part = "loader" /\ Step(h))
    /\ \A p \in Sleeper : SF_clockvars(part = "clock" /\ ClockStep(p))
    /\ SF_clockvars(part = "clock" /\ Tick)
    /\ WF_clockvars(part = "clock" /\ (Wake \/ TickDone))

\* Every hart that runs the bootloader ends in the kernel or in panic().
LoaderDecides == part = "loader" => EveryHartDecides
=============================================================================
