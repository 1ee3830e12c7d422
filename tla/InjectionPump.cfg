SPECIFICATION FairSpec
CONSTANTS
  t1 = t1
  t2 = t2
  s1 = s1
  n1 = n1
  p1 = p1
  Turns = {t1, t2}
  Steers = {s1}
  Notices = {n1}
  Prompts = {p1}
  Loads <- Together
  NoOne = NoOne
INVARIANTS
  OneCopy
  AnswersAreTrue
PROPERTIES
  PumpCatchesUp
  SessionSettles
CHECK_DEADLOCK FALSE
