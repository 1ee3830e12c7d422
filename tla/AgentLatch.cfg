SPECIFICATION FairSpec
CONSTANTS
  c1 = c1
  c2 = c2
  r1 = r1
  r2 = r2
  NoRun = NoRun
  Callers = {c1, c2}
  Runs = {r1, r2}
  DrainAll = FALSE
  Setups <- LatchSetups
INVARIANTS
  OneRunHoldsTheLatch
  SlotBelongsToTheHolder
  IdleIsSettled
  RunSeesTheTranscript
  QueuesAreFifo
PROPERTIES
  HandlesResolve
  WaitersReturn
CHECK_DEADLOCK FALSE
