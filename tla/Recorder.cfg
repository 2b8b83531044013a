SPECIFICATION Spec
CONSTANTS
    Timeouts = {0, 500, 15000}
    Bitrate = 16
    MaxArgs = 4
    MaxFailures = 1
    IntRange = 100
INVARIANTS
    CallbackHasFiles
    NothingLeft
    OneFilePerStart
    CrashOnlyAfterFailure
PROPERTIES
    ReleasedInOrder
CHECK_DEADLOCK FALSE
