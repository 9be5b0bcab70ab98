SPECIFICATION Spec
CONSTANTS
  P = 223
  W = 107
  Capacity = 70
  SerialLen = 3
  Documents <- MCDocuments
  Tails <- MCTails
  Unknown = Unknown
INVARIANTS DecodersExact FieldOfIssuer ReadersAgree HostAccepted HostAgrees
CHECK_DEADLOCK FALSE
