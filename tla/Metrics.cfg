SPECIFICATION FairSpec
CONSTANTS
    Jobs = {j1, j2}
    j1 = j1
    j2 = j2
    Launches <- Wrapped
INVARIANTS TypeOK MeasuredOnThisChip
PROPERTIES EventuallyMeasured
