SPECIFICATION FairSpec
CONSTANTS
  PIXELBUFFER_COUNT = 4
  MaxSends = 6
INVARIANTS
  NoBufferRace
  StaleOnlyAfterLockFailure
  TornDownAfterThread
PROPERTIES
  ImplementsChannel
  RenderingContinues
CHECK_DEADLOCK FALSE
