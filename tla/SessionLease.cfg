SPECIFICATION FairSpec
CONSTANTS
  p1 = p1
  p2 = p2
  p3 = p3
  None = None
  Runners = {p1, p2, p3}
  Placements <- OneOrTwoMachines
  AcquireAttempts = 4
  MaxSpawns <- OneSpawns
  MaxLag = 1
  Prompt = TRUE
INVARIANTS
  HoldersAreRecorded
  OneKnownUser
PROPERTY
  StaleLeaseIsTaken
CHECK_DEADLOCK FALSE
