----------------------------- MODULE BlockStore -----------------------------
(***************************************************************************)
(* What the buffer cache promises (bio.c:3-14): one copy of every block,   *)
(* used by one process at a time.                                          *)
(***************************************************************************)
CONSTANTS Proc, Block, Data, None

VARIABLES content,      \* the contents of the blocks
          holder,       \* who uses a block, None if nobody does
          view          \* what a process sees in the block it uses

vars == <<content, holder, view>>

Init ==
    /\ content \in [Block -> Data]
    /\ holder = [k \in Block |-> None]
    /\ view = [p \in Proc |-> None]

Get(p, k) ==
    /\ holder[k] = None
    /\ holder' = [holder EXCEPT ![k] = p]
    /\ view' = [view EXCEPT ![p] = content[k]]
    /\ UNCHANGED content

Write(p, k, v) ==
    /\ holder[k] = p
    /\ content' = [content EXCEPT ![k] = v]
    /\ view' = [view EXCEPT ![p] = v]
    /\ UNCHANGED holder

Put(p, k) ==
    /\ holder[k] = p
    /\ holder' = [holder EXCEPT ![k] = None]
    /\ view' = [view EXCEPT ![p] = None]
    /\ UNCHANGED content

Next ==
    \E p \in Proc, k \in Block :
       Get(p, k) \/ Put(p, k) \/ \E v \in Data : Write(p, k, v)

Spec == Init /\ [][Next]_vars
=============================================================================
