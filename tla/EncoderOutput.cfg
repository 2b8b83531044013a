SPECIFICATION OutputSpec
CONSTANTS
    Wrap = 4
    GroupLength = 2
    ReplayChunks = 2
    IgnoreRecent = 1
    PoolSize = 1
    MaxBuffers = 10
    MaxFaults = 1
    MaxRestarts = 1
    cb_len = 9
    IFRAME_BUFSIZE = 10
    HEADER_SIZE = 3
    MaxLength = 2
    MinKey = 2
    KeyFrameBuffers = 2
    frames_per_key = 2
    MaxUnits = 18
    InFlight = 1
INVARIANTS
    ReplayDecodable
    ReplayInOrder
    NothingLost
    IframeListTrue
    SavedFromOldestKey
CHECK_DEADLOCK FALSE
