SPECIFICATION Spec
CONSTANTS
  Reqs = {r1, r2}
  Pids = {1, 2}
  MaxVersion = 1
  MaxCrashes = 1
  Contained = FALSE
  None = None
  Garbage = Garbage
INVARIANT Serialized
CHECK_DEADLOCK FALSE
