SPECIFICATION Spec
CONSTANTS
    Runs = {timer}
    timer = timer
    MaxTime = 10
    SLOTS <- MCSlots
INVARIANTS TypeOK SoloPruneExact
PROPERTIES RetentionSpec
