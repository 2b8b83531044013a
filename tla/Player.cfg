SPECIFICATION FairSpec
CONSTANTS
  InputBuffers = 2
  AllocLen = 2
  FileLen = {0, 1, 2, 3}
  Frames = 7
CHECK_DEADLOCK FALSE
INVARIANTS TokensConserved
PROPERTIES ShowsRecent PlaysForever
