SPECIFICATION Spec
CONSTANTS
    LastNode = 2
    Names = {f}
    f = f
    Nested = {1}
    Lacking <- MCLacking
    MaxInputs = 3
INVARIANTS TypeOK MovedMeansCopied DeleteLosesNothing AuditTells RelinkedReachesCopy
CHECK_DEADLOCK FALSE
