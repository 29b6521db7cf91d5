CONSTANTS
    Jobs = {j1}
    Runners = {r1}
    Cancels = {}
    Streams = {}
    Cmds <- NoisyCmd
    PipeCap = 1
    ErrCap = 1
    MaxFaults = 0
    None = None
SPECIFICATION FairSpec
CHECK_DEADLOCK FALSE
PROPERTIES
    SupervisedEnds
