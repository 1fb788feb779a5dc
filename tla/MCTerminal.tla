----------------------------- MODULE MCTerminal -----------------------------
(***************************************************************************)
(* Small instances of the two halves of the terminal: the console's input  *)
(* and the UART's output.  They share no state (an echo is output that the *)
(* kernel prints), so a behaviour is one of a single half, chosen at the   *)
(* start, and the other keeps its initial state: the states of the two are *)
(* added and not multiplied.                                               *)
(***************************************************************************)
EXTENDS Console, TLC

CONSTANTS Writer, Kernel, UART_TX_BUF_SIZE, FIFO, MaxChars, MaxSync, Nobody

VARIABLES uart_tx_buf, uart_tx_w, uart_tx_r, lock, pc, look, syncs, fifo, irq, sent, lost,
          half

U == INSTANCE Uart
uartvars == <<uart_tx_buf, uart_tx_w, uart_tx_r, lock, pc, look, syncs, fifo, irq, sent, lost>>

ASSUME U!UartAssumption

MCInit == Init /\ U!Init /\ half \in {"input", "output"}

MCNext ==
    \/ half = "input" /\ Next /\ UNCHANGED <<uartvars, half>>
    \/ half = "output" /\ U!Next /\ UNCHANGED <<vars, half>>

\* Fairness is the output's; it holds of itself while the input is at work.
Spec == MCInit /\ [][MCNext]_<<vars, uartvars, half>> /\ U!Fairness

\* Output is sent in order, and somebody will send it (uart.c:82-190).
OutputDriven == U!OutputDriven

\* What entered the output buffer is sent (uart.c:82-190).
Drained == U!Drained
=============================================================================
