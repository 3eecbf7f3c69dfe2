SPECIFICATION Spec
CONSTANTS
    NHosts = 2
    Polls = {p1}
    p1 = p1
    MaxLen = 3
    Retain = 2
    MaxTime = 4
CHECK_DEADLOCK FALSE
INVARIANTS PlottedAtItsTime
