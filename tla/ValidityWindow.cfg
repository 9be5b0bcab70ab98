SPECIFICATION Spec
CONSTANTS
  P = 13
  W = 4
  U = 8
  Dates = {0, 1, 3}
  None = None
INVARIANTS WindowExact RejectedRightly
CHECK_DEADLOCK FALSE
