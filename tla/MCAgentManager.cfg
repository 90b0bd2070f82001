SPECIFICATION Spec
CONSTANTS
  Runtime = {r1, r2}
  None = None
  DirectFallback = TRUE
  DatabaseFails = FALSE
  HasWarmup = TRUE
  Requests = {"get", "start", "stop", "reload", "account", "trigger", "create", "createSaved",
              "shutdown", "rebind"}
CONSTRAINTS
  RebindIsAlone
  OneWorker
SYMMETRY RuntimeSymmetry
INVARIANTS
  TypeOK
  NoOrphanConnection
  DroppedIsInert
  RemovedIsQuiet
  BadgeIsHonest
  AtMostOneConnection
  FreshSessionNotRevoked
PROPERTY
  SessionIsExclusive
