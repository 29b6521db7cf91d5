SPECIFICATION Spec
CONSTANTS
    p1 = p1
    p2 = p2
    p3 = p3
    Posts <- ThreePosts
    MaxRelease = 3
    MaxFaults = 2
    None = None
    Unknown = Unknown
    Broken = Broken
SYMMETRY Posts_Symmetric
CHECK_DEADLOCK FALSE
INVARIANTS TypeOK RecordNamesReplaced
PROPERTIES LocalDevIsLeftAlone
