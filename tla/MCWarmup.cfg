SPECIFICATION MCSpec
CONSTANTS
  sender = sender
  other = other
  Agent = {sender, other}
  Reply = {r1, r2}
  None = None
  Lengths = {2}
  RecoveryLengths = {2}
  Slots <- MCSlots
  RecoverySlots <- MCRecoverySlots
  Grace = 1
  MatchWindow = 1
  MaxOpeners = 2
  MinInterval = 2
  MaxUnclear = 2
  MaxTime = 2
  MaxReports = 1
  MaxInterventions = 1
CONSTRAINT OneStory
SYMMETRY Symmetric
INVARIANTS
  TypeOK
  RecordFollowsMemory
  TurnsAreBounded
  OpenersAreSpaced
