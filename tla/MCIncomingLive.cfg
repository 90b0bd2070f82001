SPECIFICATION FairSpec
CONSTANTS
  Msg = {m1, m2}
  MaxGroups = 1
  MaxAge = 2
  DeferLimit = 1
PROPERTY
  DeferredIsSettled
