CONSTANTS
    Reader = {p1, p2}
    Char = {a}
    Newline = nl
    Eof = eof
    INPUT_BUF_SIZE = 3
    W = 6
    MaxTyped = 7
    MaxN = 2
    Writer = {p3, p4}
    Kernel = {k1, k2}
    UART_TX_BUF_SIZE = 2
    FIFO = 3
    MaxChars = 5
    MaxSync = 4
    Nobody = Nobody
SPECIFICATION Spec
CHECK_DEADLOCK FALSE
INVARIANT InputDelivered OutputDriven
PROPERTY EditsLines Drained
