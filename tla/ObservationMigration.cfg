SPECIFICATION Spec
CONSTANTS
  d1 = d1
  d2 = d2
  s1 = s1
  s2 = s2
  None = None
  Docs = {d1, d2}
  Subscribers = {s1}
  MaxPending = 2
  MaxValue = 4
  MigratesWatched = TRUE
INVARIANT WatchesConverge
CHECK_DEADLOCK FALSE
