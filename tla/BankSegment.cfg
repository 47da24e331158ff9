SPECIFICATION Spec
CONSTANTS
  Inits = {i1, i2}
  Clients = {c1, c2}
  MaxObjects = 2
SYMMETRY Symmetry
INVARIANTS
  OneVisitor
  LateClientsSafe
  GivesUpOwnBank
CHECK_DEADLOCK FALSE
