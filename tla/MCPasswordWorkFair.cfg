SPECIFICATION FairSpec
CONSTANTS
    Caller = {g1, g2, g3}
    MaxConcurrent = 1
    g1 = g1
    g2 = g2
    g3 = g3
INVARIANTS SlotsAreOwned NobodySleepsBesideIdle
PROPERTIES CallsAreAnswered
