SPECIFICATION Spec
CONSTANTS
  m1 = m1
  m2 = m2
  Nobody = Nobody
  Managers = {m1, m2}
  Setups <- DamagingSetups
INVARIANT AcknowledgedEntriesAreRead
CHECK_DEADLOCK FALSE
