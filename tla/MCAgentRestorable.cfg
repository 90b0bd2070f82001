SPECIFICATION Spec
CONSTANTS
  Runtime = {r1, r2}
  None = None
  DirectFallback = FALSE
  DatabaseFails = FALSE
  HasWarmup = TRUE
  Requests = {"get", "start", "stop", "reload", "rebind", "account", "trigger", "create",
              "createSaved", "shutdown"}
SYMMETRY RuntimeSymmetry
PROPERTY
  AutoStartIsRestored
