SPECIFICATION FairBothSpec
CONSTANTS
  Docs <- MCDocs
  MaxDocLevels = 4
  MaxQeLevels = 3
  Severities = {0, 1, 2, 3, 4, 6}
  PlatformSevs = {2}
  PaddingSevs = {0}
  Revoked = 6
  None = None
INVARIANTS QeLevelsBound MergedVerdict
PROPERTIES ImplementsGnark HonestQeAccepted
CHECK_DEADLOCK FALSE
