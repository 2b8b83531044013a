SPECIFICATION PipelineSpec
CONSTANTS
  FieldUpdateDelay = 20
  MaxBehind = 0
  MaxFrame = 37
INVARIANTS
  BallReadoutIntact
CHECK_DEADLOCK FALSE
