SPECIFICATION RSpec
CONSTANTS
  d1 = d1
  d2 = d2
  Docs = {d1, d2}
  Rewindable = {d2}
  IdBlock = 2
  Setups <- SoundSetups
INVARIANTS
  OnlyTheSweepLosesData
  MemoryIsTheLog
  ReadsTellTheHistory
  OneLivePerAddress
  NoIdIsReissued
  ReaderSeesAPrefix
PROPERTY
  ImplementsPicoStore
CHECK_DEADLOCK FALSE
