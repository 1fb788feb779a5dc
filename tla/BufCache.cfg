\* Two processes and two buffers for three blocks; one block may be pinned.
CONSTANTS
  None = None
  Proc = {p1, p2}
  Block = {k1, k2, k3}
  Data = {v1, v2}
  Buf = {b1, b2}
  MaxPins = 1
SPECIFICATION Spec
CHECK_DEADLOCK FALSE
INVARIANT BuffersAccounted
PROPERTY OneCopy BufferGranted
