SPECIFICATION Spec
CONSTANTS
  Reqs = {r1, r2}
  Pids = {1, 2}
  MaxVersion = 2
  MaxCrashes = 1
  Contained = FALSE
  None = None
  Garbage = Garbage
SYMMETRY Symmetry
INVARIANT TypeOK
PROPERTY DirsUndisturbed
CHECK_DEADLOCK FALSE
