SPECIFICATION Spec
CONSTANTS
  Task = {t1, t2}
  Calls = {"tool", "comment", "reply", "gate"}
  Slot = 3
  EntityTtl = 2
  RestrictedTtl = 2
  RetryLimit = 1
  BanTime = 1
  ForeverBelow = 1
  None = None
CONSTRAINTS CommentsAlone OneExcuse
SYMMETRY Symmetry
INVARIANTS
  TypeOK
  SlowModeIsForeseen
  RefusedIsNotRepeated
