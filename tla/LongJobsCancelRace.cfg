CONSTANTS
    Jobs = {j1}
    Runners = {r1}
    Cancels = {c1}
    Streams = {}
    Cmds <- AnyCmd
    PipeCap = 1
    ErrCap = 1
    MaxFaults = 0
    None = None
SPECIFICATION FairSpec
CHECK_DEADLOCK FALSE
PROPERTIES
    CancelledStays
