\* Two processes on two harts.
CONSTANTS
  h1 = h1
  h2 = h2
  Hart = {h1, h2}
  NPROC = 2
  None = None
SPECIFICATION Safety
SYMMETRY Symmetry
INVARIANT SwitchesSafely NoLostWakeup
