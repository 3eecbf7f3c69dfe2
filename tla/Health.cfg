SPECIFICATION Spec
CONSTANTS
    SshTimeout = 15
    Waits = {0, 15}
INVARIANTS TypeOK FaultShown LostOnlyIfOutlived
CHECK_DEADLOCK FALSE
