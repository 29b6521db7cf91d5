SPECIFICATION Spec
CONSTANTS
    c1 = c1
    c2 = c2
    c3 = c3
    c4 = c4
    d1 = d1
    d2 = d2
    Calls <- FourCalls
    Digests <- TwoDigests
    MaxKills = 2
    None = None
SYMMETRY Symmetry
CHECK_DEADLOCK FALSE
INVARIANTS TypeOK RecordedIsReadable PartialComesFromOverlap WritesFailOnlyByOverlap
