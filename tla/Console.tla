------------------------------ MODULE Console ------------------------------
(***************************************************************************)
(* Console input (console.c): consoleintr() edits the line and             *)
(* consoleread() copies it to readers, with the indices r, w and e into a  *)
(* circular buffer, counted modulo 2^32 (W here).                          *)
(*                                                                         *)
(* consoleintr() runs under cons.lock, one step for each character;        *)
(* consoleread() too, from one sleep to the next.  kill() may wake a       *)
(* reader at any time.  typed, eofs and zeros are not in the code: they    *)
(* bound the input and count end-of-files.                                 *)
(***************************************************************************)
EXTENDS Integers, Sequences, FiniteSets

CONSTANTS Reader,
          Char,                 \* ordinary characters
          Newline, Eof,         \* '\n' and control-D
          INPUT_BUF_SIZE,
          W,                    \* indices are counted modulo W
          MaxTyped, MaxN        \* bounds: characters typed, bytes of a read

ASSUME ConsoleAssumption ==
    /\ INPUT_BUF_SIZE \in Nat \ {0} /\ W % INPUT_BUF_SIZE = 0 /\ W > INPUT_BUF_SIZE
    /\ Newline # Eof /\ {Newline, Eof} \cap Char = {}

VARIABLES buf, r, w, e,
          st,                   \* each reader: pc, n, target
          typed, eofs, zeros

vars == <<buf, r, w, e, st, typed, eofs, zeros>>

AnyChar == Char \cup {Newline, Eof}
Index == 0 .. INPUT_BUF_SIZE - 1
Idle == [pc |-> "idle", n |-> 0, target |-> 0]

TypeOK ==
    /\ buf \in [Index -> AnyChar]
    /\ {r, w, e} \subseteq 0 .. W - 1
    /\ st \in [Reader -> [pc : {"idle", "ready", "asleep"}, n : 0 .. MaxN, target : 0 .. MaxN]]
    /\ typed \in 0 .. MaxTyped /\ eofs \in Nat /\ zeros \in Nat

Init ==
    /\ buf = [i \in Index |-> Newline] /\ r = 0 /\ w = 0 /\ e = 0
    /\ st = [p \in Reader |-> Idle]
    /\ typed = 0 /\ eofs = 0 /\ zeros = 0

\* Unsigned arithmetic.
Plus(i, k) == (i + k) % W
Minus(i, j) == (i - j) % W
At(i) == buf[i % INPUT_BUF_SIZE]

Wakeup == st' = [p \in Reader |-> IF st[p].pc = "asleep" THEN [st[p] EXCEPT !.pc = "ready"] ELSE st[p]]

-----------------------------------------------------------------------------
(* consoleintr() *)

Room == Minus(e, r) < INPUT_BUF_SIZE

\* Whether c, put at e, makes the line ready.
Ends(c) == c \in {Newline, Eof} \/ Minus(Plus(e, 1), r) = INPUT_BUF_SIZE

\* A character is echoed and stored, if there is room.
Type(c) ==
    /\ typed < MaxTyped /\ typed' = typed + 1
    /\ IF Room
       THEN /\ buf' = [buf EXCEPT ![e % INPUT_BUF_SIZE] = c]
            /\ e' = Plus(e, 1)
            /\ eofs' = IF c = Eof THEN eofs + 1 ELSE eofs
            /\ IF Ends(c) THEN w' = Plus(e, 1) /\ Wakeup ELSE UNCHANGED <<w, st>>
       ELSE UNCHANGED <<buf, e, w, st, eofs>>
    /\ UNCHANGED <<r, zeros>>

EraseAny ==                                                     \* mutant
    /\ typed < MaxTyped /\ typed' = typed + 1
    /\ e' = IF e # r THEN Minus(e, 1) ELSE e
    /\ UNCHANGED <<buf, r, w, st, eofs, zeros>>
\* Backspace or delete.
Erase ==
    /\ typed < MaxTyped /\ typed' = typed + 1
    /\ e' = IF e # w THEN Minus(e, 1) ELSE e
    /\ UNCHANGED <<buf, r, w, st, eofs, zeros>>

\* Control-U: back to w, or to the last newline after it.
KillLine ==
    /\ typed < MaxTyped /\ typed' = typed + 1
    /\ LET kept == {k \in 0 .. Minus(e, w) :
                      \/ Minus(e, k) = w
                      \/ At(Minus(Minus(e, k), 1)) = Newline}
       IN  e' = Minus(e, CHOOSE k \in kept : \A l \in kept : k <= l)
    /\ UNCHANGED <<buf, r, w, st, eofs, zeros>>

-----------------------------------------------------------------------------
(* consoleread() *)

ReadCall(p, n) ==
    /\ st[p].pc = "idle"
    /\ st' = [st EXCEPT ![p] = [pc |-> "ready", n |-> n, target |-> n]]
    /\ UNCHANGED <<buf, r, w, e, typed, eofs, zeros>>

Sleep(p) ==
    /\ st[p].pc = "ready" /\ r = w
    /\ st' = [st EXCEPT ![p].pc = "asleep"]
    /\ UNCHANGED <<buf, r, w, e, typed, eofs, zeros>>

\* kill(): the reader wakes and, when there is nothing to read, returns -1.
Killed(p) ==
    /\ st[p].pc \in {"asleep", "ready"} /\ r = w
    /\ st' = [st EXCEPT ![p] = Idle]
    /\ UNCHANGED <<buf, r, w, e, typed, eofs, zeros>>

\* The characters that are ready, and what a read of n takes of them: up to a
\* newline, or up to an end-of-file.
Ready == [i \in 1 .. Minus(w, r) |-> At(Plus(r, i - 1))]
Taken(n) ==
    LET stops == {i \in 1 .. Len(Ready) : i = n \/ Ready[i] \in {Newline, Eof}}
    IN  IF stops = {} THEN Len(Ready) ELSE CHOOSE i \in stops : \A j \in stops : i <= j

EofKeptNever(p, k) == FALSE                                     \* mutant
\* The end-of-file is left for the next read when this one has bytes to return.
EofKept(p, k) == Ready[k] = Eof /\ (k > 1 \/ st[p].n < st[p].target)

\* The loop runs until the read is complete, or nothing is left to take.
Copy(p) ==
    LET k == Taken(st[p].n)
        bytes == IF Ready[k] = Eof THEN k - 1 ELSE k
        complete == Ready[k] \in {Newline, Eof} \/ k = st[p].n
    IN
    /\ st[p].pc = "ready" /\ r # w
    /\ r' = Plus(r, IF EofKept(p, k) THEN k - 1 ELSE k)
    /\ st' = [st EXCEPT ![p] = IF complete THEN Idle ELSE [@ EXCEPT !.n = @ - bytes]]
    /\ zeros' = IF complete /\ st[p].n - bytes = st[p].target THEN zeros + 1 ELSE zeros
    /\ UNCHANGED <<buf, w, e, typed, eofs>>

\* either_copyout() fails at the i-th byte, which is lost: the read returns.
CopyFails(p, i) ==
    /\ st[p].pc = "ready" /\ r # w
    /\ i <= Taken(st[p].n) /\ Ready[i] # Eof
    /\ r' = Plus(r, i)
    /\ st' = [st EXCEPT ![p] = Idle]
    /\ UNCHANGED <<buf, w, e, typed, eofs, zeros>>

-----------------------------------------------------------------------------
Next ==
    \/ Erase \/ KillLine \/ \E c \in AnyChar : Type(c)
    \/ \E p \in Reader :
          \/ \E n \in 1 .. MaxN : ReadCall(p, n)
          \/ Sleep(p) \/ Killed(p) \/ Copy(p)
          \/ \E i \in 1 .. MaxN : CopyFails(p, i)

-----------------------------------------------------------------------------
(* Properties *)

\* A reader sleeps only when nothing is ready: consoleintr() wakes the readers
\* whenever it moves w, and a read that leaves a character behind leaves none of
\* them asleep (console.c:91-97, 168-173).
SleepsOnlyEmpty == \A p \in Reader : st[p].pc = "asleep" => r = w

\* Every end-of-file makes exactly one read return 0 bytes: "to make sure caller
\* gets a 0-byte result" (console.c:101-108).
EofOnce ==
    eofs = zeros + Cardinality({i \in 1 .. Minus(w, r) : Ready[i] = Eof})

\* The indices are in order, and the buffer holds no more than it can, wherever
\* the counters stand modulo 2^32.
IndicesInOrder ==
    /\ Minus(w, r) <= Minus(e, r)
    /\ Minus(e, r) <= INPUT_BUF_SIZE

Line == INSTANCE LineEdit WITH
            Char <- AnyChar, Final <- {Newline, Eof}, Capacity <- INPUT_BUF_SIZE,
            ready <- Ready, edit <- [i \in 1 .. Minus(e, w) |-> At(Plus(w, i - 1))]

\* The circular buffer implements the two queues of LineEdit.
EditsLines == Line!Spec

\* Readers sleep only when there is nothing for them, get every end-of-file once,
\* and the indices stay in order.
InputDelivered == TypeOK /\ SleepsOnlyEmpty /\ EofOnce /\ IndicesInOrder
=============================================================================
