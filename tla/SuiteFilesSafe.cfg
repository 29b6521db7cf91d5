SPECIFICATION FairSpec
CONSTANTS
    c1 = c1
    c2 = c2
    c3 = c3
    a1 = a1
    a2 = a2
    Calls <- TwoCalls
    Apps <- TwoApps
    Common = Common
    Data = {1, 2}
    Odd = Odd
    Devices = {cuda}
    Written <- MCWritten
    MaxFaults = 2
    None = None
    Missing = Missing
    Absent = Absent
    Corrupt = Corrupt
CHECK_DEADLOCK FALSE
INVARIANTS TypeOK CorruptOnlyByFailure
PROPERTIES ImplementsStore DevicePutKeepsTheRest CallsEnd
