SPECIFICATION FairSpec
CONSTANTS
  Buffer = {b1, b2, b3}
  None = None
  MaxLost = 2
CHECK_DEADLOCK FALSE
INVARIANTS TextureNotRefilled
PROPERTIES KeepsDrawing
