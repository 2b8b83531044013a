SPECIFICATION FairSpec
CONSTANTS
  PIXELBUFFER_COUNT = 4
  MaxSends = 3
PROPERTIES
  ShutdownCompletes
CHECK_DEADLOCK FALSE
