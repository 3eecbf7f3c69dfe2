SPECIFICATION Spec
CONSTANTS
    Jobs = {j1, j2}
    j1 = j1
    j2 = j2
    Launches <- Nested
INVARIANTS NeverMisattributed
