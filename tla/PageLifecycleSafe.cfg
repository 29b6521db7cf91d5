SPECIFICATION Spec
CONSTANTS
    c1 = c1
    c2 = c2
    i1 = i1
    i2 = i2
    Copies <- TwoCopies
    Uses <- PrepAndLabeler
    Passes <- LabelerPassesAll
    Ids <- OneId
    Interval = 2
    MaxVersion = 3
    MaxPending = 2
    MaxFaults = 1
    None = None
CHECK_DEADLOCK FALSE
INVARIANTS TypeOK MemoryAgreesWithReplay LoadsAgreeWithReplay WritersSawTheHistory
