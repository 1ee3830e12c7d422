SPECIFICATION Spec
CONSTANTS
  m1 = m1
  m2 = m2
  Nobody = Nobody
  Managers = {m1, m2}
  Setups <- SoundSetups
INVARIANTS
  AcknowledgedEntriesSurvive
  HistoryIsCutAtRefusalsOnly
PROPERTY
  NothingIsUnwritten
CHECK_DEADLOCK FALSE
