SPECIFICATION RSpec
CONSTANTS
  d1 = d1
  d2 = d2
  Docs = {d1, d2}
  Rewindable = {d2}
  IdBlock = 2
  Setups <- DamagingSetups
INVARIANT CrashesAreHarmless
CHECK_DEADLOCK FALSE
