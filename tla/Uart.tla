-------------------------------- MODULE Uart --------------------------------
(***************************************************************************)
(* Console output (uart.c): uartputc() for write(), with a circular buffer *)
(* that uartstart() empties from both halves of the driver; and            *)
(* uartputc_sync() for the kernel's own output, which goes straight to the *)
(* device without the lock.                                                *)
(*                                                                         *)
(* The device has a FIFO (uartinit() enables it); it says it is idle when  *)
(* that is empty, and interrupts when it becomes so.  The interrupt is     *)
(* cleared by reading ISR and by writing THR.                              *)
(***************************************************************************)
EXTENDS Naturals, Sequences, FiniteSets

CONSTANTS Writer,               \* processes that write()
          Kernel,               \* CPUs that print or echo
          UART_TX_BUF_SIZE,
          FIFO,                 \* bytes the device's FIFO holds
          MaxChars,             \* bound: characters written, each its number
          MaxSync,              \* bound: characters the kernel prints
          Nobody

\* What the constants have to be.
UartAssumption ==
    /\ UART_TX_BUF_SIZE \in Nat \ {0} /\ FIFO \in Nat \ {0} /\ MaxChars \in Nat
    /\ Writer \cap Kernel = {} /\ Nobody \notin Writer \cup {"intr"}

VARIABLES uart_tx_buf, uart_tx_w, uart_tx_r,
          lock,                 \* uart_tx_lock: a writer, the handler or nobody
          pc,                   \* of each writer and of the handler "intr"
          look, syncs,          \* each CPU: has it seen the device idle? and their output
          fifo, irq,            \* the device
          sent, lost            \* what it has sent; whether its FIFO overran

vars == <<uart_tx_buf, uart_tx_w, uart_tx_r, lock, pc, look, syncs, fifo, irq, sent, lost>>

Thread == Writer \cup {"intr"}
Index == 0 .. UART_TX_BUF_SIZE - 1

TypeOK ==
    /\ uart_tx_buf \in [Index -> 0 .. MaxChars]
    /\ uart_tx_r \in Nat /\ uart_tx_w \in uart_tx_r .. uart_tx_r + UART_TX_BUF_SIZE
    /\ lock \in Thread \cup {Nobody}
    /\ pc \in [Thread -> {"idle", "put", "full", "start", "send"}]
    /\ look \in [Kernel -> BOOLEAN] /\ syncs \in 0 .. MaxSync
    /\ irq \in BOOLEAN /\ lost \in BOOLEAN
    /\ Len(fifo) <= FIFO

Init ==
    /\ uart_tx_buf = [i \in Index |-> 0] /\ uart_tx_w = 0 /\ uart_tx_r = 0
    /\ lock = Nobody /\ pc = [t \in Thread |-> "idle"]
    /\ look = [k \in Kernel |-> FALSE] /\ syncs = 0
    /\ fifo = <<>> /\ irq = FALSE /\ sent = <<>> /\ lost = FALSE

buffer == <<uart_tx_buf, uart_tx_w, uart_tx_r>>
device == <<fifo, irq, sent, lost>>

\* WriteReg(THR, c); characters of the kernel are 0.
THR(c) ==
    /\ IF Len(fifo) < FIFO THEN fifo' = Append(fifo, c) /\ UNCHANGED lost
       ELSE lost' = TRUE /\ UNCHANGED fifo
    /\ irq' = FALSE /\ UNCHANGED sent

\* LSR_TX_IDLE
Idle == fifo = <<>>

-----------------------------------------------------------------------------
(* uartputc() *)

\* write() has one more character.
PutCall(p) ==
    /\ pc[p] = "idle"
    /\ pc' = [pc EXCEPT ![p] = "put"]
    /\ UNCHANGED <<buffer, lock, look, syncs, device>>

Full == uart_tx_w = uart_tx_r + UART_TX_BUF_SIZE

PutSleep(p) ==
    /\ pc[p] = "put" /\ lock = Nobody /\ Full
    /\ pc' = [pc EXCEPT ![p] = "full"]
    /\ UNCHANGED <<buffer, lock, look, syncs, device>>

\* Characters are numbered in the order in which they enter the buffer.
Put(p) ==
    /\ pc[p] = "put" /\ lock = Nobody /\ ~Full /\ uart_tx_w < MaxChars
    /\ uart_tx_buf' = [uart_tx_buf EXCEPT ![uart_tx_w % UART_TX_BUF_SIZE] = uart_tx_w + 1]
    /\ uart_tx_w' = uart_tx_w + 1
    /\ lock' = p /\ pc' = [pc EXCEPT ![p] = "start"]
    /\ UNCHANGED <<uart_tx_r, look, syncs, device>>

\* kill() wakes a writer that sleeps.
Kill(p) ==
    /\ pc[p] = "full"
    /\ pc' = [pc EXCEPT ![p] = "put"]
    /\ UNCHANGED <<buffer, lock, look, syncs, device>>

-----------------------------------------------------------------------------
(* uartstart(), with the lock held *)

\* Nothing to send: ISR is read, and the lock released.
StartEmpty(t) ==
    /\ lock = t /\ pc[t] = "start" /\ uart_tx_w = uart_tx_r
    /\ irq' = FALSE
    /\ lock' = Nobody /\ pc' = [pc EXCEPT ![t] = "idle"]
    /\ UNCHANGED <<buffer, look, syncs, fifo, sent, lost>>

\* The device is busy: it will interrupt.
StartBusy(t) ==
    /\ lock = t /\ pc[t] = "start" /\ uart_tx_w # uart_tx_r /\ ~Idle
    /\ lock' = Nobody /\ pc' = [pc EXCEPT ![t] = "idle"]
    /\ UNCHANGED <<buffer, look, syncs, device>>

StartTakeQuiet(t) ==                                            \* mutant
    /\ lock = t /\ pc[t] = "start" /\ uart_tx_w # uart_tx_r /\ Idle
    /\ uart_tx_r' = uart_tx_r + 1
    /\ pc' = [pc EXCEPT ![t] = "send"]
    /\ UNCHANGED <<uart_tx_buf, uart_tx_w, lock, look, syncs, device>>
\* A character is taken from the buffer, and who waits for room wakes.
StartTake(t) ==
    /\ lock = t /\ pc[t] = "start" /\ uart_tx_w # uart_tx_r /\ Idle
    /\ uart_tx_r' = uart_tx_r + 1
    /\ pc' = [u \in Thread |-> IF u = t THEN "send" ELSE IF pc[u] = "full" THEN "put" ELSE pc[u]]
    /\ UNCHANGED <<uart_tx_buf, uart_tx_w, lock, look, syncs, device>>

StartSend(t) ==
    /\ lock = t /\ pc[t] = "send"
    /\ THR(uart_tx_buf[(uart_tx_r - 1) % UART_TX_BUF_SIZE])
    /\ pc' = [pc EXCEPT ![t] = "start"]
    /\ UNCHANGED <<buffer, lock, look, syncs>>

-----------------------------------------------------------------------------
(* uartintr() and uartputc_sync() *)

IntrOnlyFull ==                                                 \* mutant
    /\ irq /\ pc["intr"] = "idle" /\ lock = Nobody /\ Full
    /\ lock' = "intr" /\ pc' = [pc EXCEPT !["intr"] = "start"]
    /\ UNCHANGED <<buffer, look, syncs, device>>
Intr ==
    /\ irq /\ pc["intr"] = "idle" /\ lock = Nobody
    /\ lock' = "intr" /\ pc' = [pc EXCEPT !["intr"] = "start"]
    /\ UNCHANGED <<buffer, look, syncs, device>>

\* A CPU spins until the device is idle ...
SyncLook(k) ==
    /\ ~look[k] /\ Idle /\ syncs < MaxSync
    /\ syncs' = syncs + 1
    /\ look' = [look EXCEPT ![k] = TRUE]
    /\ UNCHANGED <<buffer, lock, pc, device>>

\* ... and writes, though the device may no longer be.
SyncSend(k) ==
    /\ look[k]
    /\ THR(0)
    /\ look' = [look EXCEPT ![k] = FALSE]
    /\ UNCHANGED <<buffer, lock, pc, syncs>>

-----------------------------------------------------------------------------
(* The device *)

Transmit ==
    /\ fifo # <<>>
    /\ sent' = IF Head(fifo) = 0 THEN sent ELSE Append(sent, Head(fifo))
    /\ fifo' = Tail(fifo)
    /\ irq' = (irq \/ Tail(fifo) = <<>>)
    /\ UNCHANGED <<buffer, lock, pc, look, syncs, lost>>

-----------------------------------------------------------------------------
Start(t) == StartEmpty(t) \/ StartBusy(t) \/ StartTake(t) \/ StartSend(t)

Next ==
    \/ Transmit \/ Intr
    \/ \E t \in Thread : Start(t)
    \/ \E p \in Writer : PutCall(p) \/ PutSleep(p) \/ Put(p) \/ Kill(p)
    \/ \E k \in Kernel : SyncLook(k) \/ SyncSend(k)

\* The device sends, its interrupts are taken, and the holder of the lock, which
\* has interrupts off, goes on.
Fairness ==
    /\ WF_vars(Transmit) /\ SF_vars(Intr)
    /\ \A t \in Thread : WF_vars(Start(t))

-----------------------------------------------------------------------------
(* Properties *)

\* The characters written leave the device in the order in which they entered
\* the buffer, each once, whatever the kernel prints between them.
SentInOrder ==
    LET waiting == SelectSeq(fifo, LAMBDA c : c # 0)
        all == sent \o waiting
    IN  ~lost => \A i \in 1 .. Len(all) : all[i] = i

\* Two CPUs that both saw the device idle, and the driver, never write more than
\* its FIFO holds: one for each of them is enough (uart.c:111-158).
FifoSuffices == ~lost

\* Characters wait in the buffer only while the device is at work, or has an
\* interrupt pending, or somebody is in uartstart(): "it will interrupt when
\* it's ready for a new byte" (uart.c:142-147).
WaitingIsDriven ==
    uart_tx_w # uart_tx_r => fifo # <<>> \/ irq \/ lock # Nobody

\* Writers sleep only while the buffer is full, so that none is left behind.
SleepsOnlyFull == \A p \in Writer : pc[p] = "full" => Full

\* What entered the buffer is sent, all of it, once writers pause: here, when
\* they have written all that the bound allows.
Drained == uart_tx_w > Len(sent) ~> uart_tx_w = Len(sent)

\* Characters go out once and in order, and are never left waiting without
\* somebody or something that will send them.
OutputDriven ==
    TypeOK /\ SentInOrder /\ FifoSuffices /\ WaitingIsDriven /\ SleepsOnlyFull
=============================================================================
