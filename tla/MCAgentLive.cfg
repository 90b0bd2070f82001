SPECIFICATION FairSpec
CONSTANTS
  Runtime = {r1, r2}
  None = None
  DirectFallback = FALSE
  DatabaseFails = TRUE
  HasWarmup = FALSE
  Requests = {"reload", "trigger"}
PROPERTY
  RemovalEnds
