SPECIFICATION Spec
CONSTANTS
  Msg = {m1, m2, m3}
  MaxGroups = 2
  MaxAge = 2
  DeferLimit = 1
SYMMETRY MsgSymmetry
INVARIANTS
  TypeOK
  InOnePlace
  NothingStuck
  BatchInOrder
PROPERTIES
  NewestAreKept
  FlushIsFresh
  AnsweredOnce
