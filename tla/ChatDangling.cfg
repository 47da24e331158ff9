SPECIFICATION Spec
CONSTANTS
  Conns = {c1, c2}
  MaxFd = 2
  Nobody = Nobody
SYMMETRY Symmetry
INVARIANT NoDanglingEntry
CHECK_DEADLOCK FALSE
