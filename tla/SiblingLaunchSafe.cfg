SPECIFICATION Spec
CONSTANTS
    a1 = a1
    a2 = a2
    Apps = {a1, a2}
    Requests = {r1, r2, r3}
    Procs = {p1, p2}
    FirstPort = 1
    LastPort = 2
    Preferred <- MCPreferred
    MaxFaults = 2
    None = None
    Stranger = Stranger
    NoRow = NoRow
INVARIANTS
    TypeOK
    OneProcessUntroubled
    RowNamesLivePort
SYMMETRY Symm
CHECK_DEADLOCK FALSE
