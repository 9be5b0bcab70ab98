SPECIFICATION Spec
CONSTANTS
  N = 8
  HeaderScan = 2
  V = 1
  K = 2
  B = 3
  T = 2
  D = 1
  P = 11
INVARIANTS PinExact ScanExact
CHECK_DEADLOCK FALSE
