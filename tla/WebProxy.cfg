SPECIFICATION Spec
CONSTANTS
  Client = {c1, c2}
  Reader = reader
  HB = hb
  HeartbeatLimit = 2
  NeverBeaten = 2
  MaxSpawns = 2
  MaxLines = 2
  MaxRequests = 2
CHECK_DEADLOCK FALSE
SYMMETRY Interchangeable
INVARIANTS LinesInOrder TrackerControlled
PROPERTIES HeartbeatHonoured
