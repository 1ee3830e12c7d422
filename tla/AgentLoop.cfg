SPECIFICATION FairSpec
CONSTANTS
  MaxAnswers = 1
  MaxSteer = 2
  MaxFollowUp = 1
  MaxUpdates = 1
INVARIANTS
  QueuesDeliver
  EndsOnlyWhenIdle
  EventsNest
  RequestsSeeTheTranscript
PROPERTY
  TurnsHaveAReason
  AbortSettles
CHECK_DEADLOCK FALSE
