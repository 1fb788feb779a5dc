----------------------------- MODULE ByteStream -----------------------------
(***************************************************************************)
(* What a pipe promises (pipe.c): a bounded first-in first-out stream of   *)
(* bytes that ends when either side is closed.                             *)
(***************************************************************************)
EXTENDS Naturals, Sequences

CONSTANTS Byte, Capacity

VARIABLES queue,        \* the bytes written and not read yet
          ropen, wopen  \* whether each end is open

vars == <<queue, ropen, wopen>>

Init == queue = <<>> /\ ropen = FALSE /\ wopen = FALSE

\* A new pipe, in the memory of one that is closed on both sides.
Open ==
    /\ ~ropen /\ ~wopen
    /\ queue' = <<>> /\ ropen' = TRUE /\ wopen' = TRUE

\* A byte is taken only while somebody may read it and there is room.
Put(b) ==
    /\ ropen /\ wopen
    /\ Len(queue) < Capacity
    /\ queue' = Append(queue, b)
    /\ UNCHANGED <<ropen, wopen>>

Get ==
    /\ ropen
    /\ queue # <<>>
    /\ queue' = Tail(queue)
    /\ UNCHANGED <<ropen, wopen>>

CloseRead == ropen /\ ropen' = FALSE /\ UNCHANGED <<queue, wopen>>

CloseWrite == wopen /\ wopen' = FALSE /\ UNCHANGED <<queue, ropen>>

Next == Open \/ Get \/ CloseRead \/ CloseWrite \/ \E b \in Byte : Put(b)

Spec == Init /\ [][Next]_vars
=============================================================================
