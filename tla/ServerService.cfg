SPECIFICATION FairSpec
CONSTANTS
  Reqs = {r1, r2}
  Pids = {1}
  MaxVersion = 2
  MaxCrashes = 1
  Contained = TRUE
  None = None
  Garbage = Garbage
INVARIANTS OwnProof Serialized
PROPERTIES FreshKey RefinesService Served
CHECK_DEADLOCK FALSE
