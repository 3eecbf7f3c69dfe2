SPECIFICATION Spec
CONSTANTS
    NChips = 2
    DayLength = 2
    p = p
    alice = alice
    Procs = {p}
    UserOf <- OneUser
    NoUser = NoUser
    Stranger = Stranger
    MaxLogWait = 1
    MaxTime = 5
    MaxFaults = 2
CHECK_DEADLOCK FALSE
INVARIANTS TypeOK StatusWhole LogFaithful LogNeverSilent UsageFromLogExact DayOffByOneRow HeatmapIsUsage
PROPERTIES AccountsNeverShrink
