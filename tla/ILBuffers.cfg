SPECIFICATION Spec
CONSTANTS
  decode = decode
  Component = {decode}
  NoComponent = NoComponent
  NUM_EVENTS = 5
  Buffer = {b1, b2, b3}
  MaxFailures = 2
INVARIANTS BufferInOnePlace NoWaitForever NothingLeaked
CHECK_DEADLOCK FALSE
