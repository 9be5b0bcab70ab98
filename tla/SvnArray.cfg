SPECIFICATION FairArraySpec
CONSTANTS
  Size = 8
  Slots = 3
  MaxComps = 4
  None = None
INVARIANTS PositionalBinding OwnComponents
PROPERTY BuilderAccepted
CHECK_DEADLOCK FALSE
