SPECIFICATION MCSpec
CONSTANTS
  Timer = {m1, m2}
  Loop = {l1, l2}
  Element = {e1, e2}
  Flush = {f1, f2}
  None = None
CHECK_DEADLOCK FALSE
INVARIANTS
  TypeOK
  FiredAtMostOnce
  OneCommentPerAlbum
  NoElementStuck
  FlushIsSpared
PROPERTY
  DueIsTaken
