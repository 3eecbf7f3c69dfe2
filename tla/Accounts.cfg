SPECIFICATION Spec
CONSTANTS
    LastNode = 2
    Names = {alice, bob}
    alice = alice
    bob = bob
    Local = {local}
    local = local
    Runs = {r1, r2}
    r1 = r1
    r2 = r2
    MaxByHand = 2
SYMMETRY Alike
INVARIANTS TypeOK KeyMeansEverywhere NodesAgree
PROPERTIES HalfMadeStays
CHECK_DEADLOCK FALSE
