----------------------------- MODULE AtomicDisk -----------------------------
(***************************************************************************)
(* What the log promises to the file system (log.c:10-16): file system     *)
(* calls run concurrently and see each other's writes, and what survives a *)
(* crash is the disk as it was at a moment when no call was in progress.   *)
(***************************************************************************)
CONSTANTS Proc, Block, Val

VARIABLES durable,      \* the disk a crash would leave
          current,      \* the disk the calls see
          active        \* the processes between begin_op() and end_op()

vars == <<durable, current, active>>

Init ==
    /\ durable \in [Block -> Val]
    /\ current = durable
    /\ active = {}

Begin(p) ==
    /\ p \notin active
    /\ active' = active \cup {p}
    /\ UNCHANGED <<durable, current>>

Write(p, b, v) ==
    /\ p \in active
    /\ current' = [current EXCEPT ![b] = v]
    /\ UNCHANGED <<durable, active>>

End(p) ==
    /\ p \in active
    /\ active' = active \ {p}
    /\ UNCHANGED <<durable, current>>

\* All the calls since the last commit become durable at once, and none is
\* half done.
Commit ==
    /\ active = {}
    /\ durable' = current
    /\ UNCHANGED <<current, active>>

Crash ==
    /\ current' = durable
    /\ active' = {}
    /\ UNCHANGED durable

Next ==
    \/ \E p \in Proc :
          \/ Begin(p) \/ End(p)
          \/ \E b \in Block, v \in Val : Write(p, b, v)
    \/ Commit \/ Crash

Spec == Init /\ [][Next]_vars
=============================================================================
