SPECIFICATION Spec
CONSTANTS
    Jobs = {j1, j2}
    j1 = j1
    j2 = j2
    NoJob = NoJob
    Stale = 1
    PsLag = 0
    MaxTime = 2
SYMMETRY JobsAlike
INVARIANTS TypeOK DashboardUserRecent UnflaggedIsRecent NumbersRecent PrintedAgeTells
CHECK_DEADLOCK FALSE
