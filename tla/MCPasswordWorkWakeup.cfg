SPECIFICATION Spec
CONSTANTS
    Caller = {g1, g2, g3, g4}
    MaxConcurrent = 2
    g1 = g1
    g2 = g2
    g3 = g3
    g4 = g4
SYMMETRY Symmetry
INVARIANTS NoWakeupIsLost
