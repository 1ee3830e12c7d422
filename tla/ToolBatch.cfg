SPECIFICATION FairSpec
CONSTANTS
  a1 = a1
  a2 = a2
  b1 = b1
  par = par
  seq = seq
  f = f
  g = g
  real = real
  link = link
  other = other
  m1 = m1
  m2 = m2
  NoMutex = NoMutex
  Tasks = {a1, a2, b1}
  Keys = {real, link, other}
  Mutexes = {m1, m2}
  Files = {f, g}
  FileOf <- LinkFile
  RealPath <- LinkReal
  Starts <- Arrangements
  Batches = {par, seq}
  Calls <- BothCalls
  Sequential = {seq}
  Disturbed = {par}
INVARIANTS
  OneGuardPerKey
  NothingLeaks
  WritesDoNotMix
  NothingRunsBesideAHook
  IssueOrder
  ReturnsComplete
PROPERTIES
  ImplementsFifoLocks
  BatchesSettle
CHECK_DEADLOCK FALSE
