SPECIFICATION FairSpec
CONSTANTS
    NHosts = 2
    Polls = {p1, p2}
    p1 = p1
    p2 = p2
    MaxLen = 2
    Retain = 1
    MaxTime = 3
CHECK_DEADLOCK FALSE
INVARIANTS TypeOK SharedGrid BuffersSorted ReferenceComplete OnlyTornCyclesLost
PROPERTIES EventuallyPlotted
