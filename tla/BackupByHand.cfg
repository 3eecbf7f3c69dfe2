SPECIFICATION Spec
CONSTANTS
    Runs = {timer, hand}
    timer = timer
    hand = hand
    MaxTime = 4
    SLOTS <- MCTwoTiers
INVARIANTS SafeByHand
