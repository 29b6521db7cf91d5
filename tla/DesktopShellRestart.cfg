SPECIFICATION FairSpec
CONSTANTS
    p1 = p1
    p2 = p2
    p3 = p3
    x1 = x1
    x2 = x2
    x3 = x3
    Shells <- TwoShells
    Pids <- TwoPids
    FirstPort = 1
    LastPort = 2
    MaxFaults = 0
    MaxRestarts = 1
    None = None
    Stranger = Stranger
    Absent = Absent
    Corrupt = Corrupt
CHECK_DEADLOCK FALSE
PROPERTIES RestartComesBack
