SPECIFICATION Spec
CONSTANTS
    Runs = {timer, hand}
    timer = timer
    hand = hand
    MaxTime = 5
    SLOTS <- MCTwoTiers
SYMMETRY RunSymmetry
INVARIANTS SlotsKeepNewest DeleteJustified
PROPERTIES SharedRetentionSpec
