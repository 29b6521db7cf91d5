SPECIFICATION FairSpec
CONSTANTS
    c1 = c1
    c2 = c2
    c3 = c3
    Calls <- TwoCalls
    Chunks = {8}
    MaxFree = 4
    None = None
CHECK_DEADLOCK FALSE
INVARIANTS TypeOK BatchPredictorsFit FallsBackLast
PROPERTIES RequestsEnd
