SPECIFICATION Spec
CONSTANTS
  Msg = {m1, m2}
  MaxGroups = 2
  MaxAge = 2
  DeferLimit = 1
SYMMETRY MsgSymmetry
PROPERTY
  AnswersAreFresh
