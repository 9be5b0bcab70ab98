SPECIFICATION Spec
CONSTANTS
  N = 8
  L = 2
INVARIANTS FlagExact PrefixExact CountExact
CHECK_DEADLOCK FALSE
