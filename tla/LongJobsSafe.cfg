CONSTANTS
    Jobs = {j1}
    Runners = {r1, r2}
    Cancels = {c1, c2}
    Streams = {s1}
    Cmds <- AnyCmd
    PipeCap = 1
    ErrCap = 1
    MaxFaults = 3
    None = None
SYMMETRY Symmetry
SPECIFICATION Spec
CHECK_DEADLOCK FALSE
INVARIANTS
    TypeOK
    LogFollowsOutput
    VerdictMatchesWorker
    StreamIsPrefix
    StreamComplete
    TerminalMeansExited
PROPERTIES
    UntouchedIsFinal
    RevivedOnlyAcrossRunners
