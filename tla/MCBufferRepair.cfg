SPECIFICATION ShadowSpec
CONSTANTS
    None = None
    Buffers = {b1}
    Words = 1
    Values = {0, 1}
    Invalid = {}
    MaxIntervals = 1
    MaxRevision = 2
    SyncFailsLate = TRUE
INVARIANTS
    DrawsReadWrites
CHECK_DEADLOCK FALSE
