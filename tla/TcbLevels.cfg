SPECIFICATION SideSpec
CONSTANTS
  Docs <- MCDocs
  MaxDocLevels = 4
  MaxLevels = 3
  Severities = {0, 1, 2, 3, 4}
  None = None
  Gnark = Gnark
INVARIANTS TypeOK EveryLevelBound CanonicalVerdict
PROPERTIES ImplementsGnark HonestAccepted
CHECK_DEADLOCK FALSE
